---- MODULE Spec2Model ----
(***************************************************************************)
(* Multi-provider quote resolution of the investment tracker backend:      *)
(* CryptoService / StockService get_quote (race over the enabled           *)
(* providers with a cache-aside layer) and the crypto bulk batch path.     *)
(* One asyncio event loop runs everything: an action is the code that runs *)
(* between two awaits of one coroutine.                                    *)
(***************************************************************************)
EXTENDS Integers, Sequences, FiniteSets, TLC

\* ------------------------------------------------------------------ bounds
NumCalls == 2      \* concurrent get_quote requests
MaxPrice == 1      \* provider prices are drawn from 1..MaxPrice
TickStep == 45     \* seconds the clock advances in one Tick
MaxTime == 90      \* the clock stops here
MaxFetches == 4    \* fetch tasks created in one behaviour, over all calls
MaxBatch == 2      \* symbols in one get_batch_quotes request

\* --------------------------------------------------------------- constants
cache_ttl_seconds == 90
cache_history_ttl_seconds == 900

\* An optional value is a sequence of length <= 1 (None is the empty one).
None == <<>>
Some(v) == <<v>>

CallIds == 1 .. NumCalls                          \* requests for one quote
ChildIds == NumCalls + 1 .. NumCalls + MaxBatch   \* get_quote calls of a batch
BatchId == 0                                      \* the batch request, as a writer
ForeignId == 0 - 1                                \* any other client of the store
HistIds == 1 .. NumCalls                          \* requests for one history
NoStatus == 0                                     \* no HTTP answer yet
Prices == 1 .. MaxPrice
InvalidPrice == 0 - 1                             \* a number the schema rejects
Services == {"crypto", "stock"}

\* ----------------------------------------------------------------- symbols
\* Raw request symbols and what symbol.upper().strip() makes of them.
RawSymbols == {"BTC", " btc"}

\* Raw symbols of batch requests: BITCOIN is a symbol SYMBOL_MAP lacks.
BatchRawSymbols == {"BTC", " eth", "BITCOIN"}

\* Spellings of one symbol: of BTC, which SYMBOL_MAP holds, and of BITCOIN,
\* which it lacks.
SymbolVariants == {"BTC", " btc", "BITCOIN", " bitcoin"}

Normalize(raw) ==
    CASE raw = "BTC" -> "BTC"
      [] raw = " btc" -> "BTC"
      [] raw = " eth" -> "ETH"
      [] raw = "BITCOIN" -> "BITCOIN"
      [] raw = " bitcoin" -> "BITCOIN"
      [] raw = "ETH" -> "ETH"

\* SYMBOL_MAP.get(symbol_upper, {}).get("coingecko", symbol.lower()): the
\* mapped id, or the lower-cased raw symbol for a symbol the map lacks.
CoinGeckoId(raw) ==
    CASE raw = "BTC" -> "bitcoin"
      [] raw = " btc" -> "bitcoin"
      [] raw = " eth" -> "ethereum"
      [] raw = "BITCOIN" -> "bitcoin"
      [] raw = " bitcoin" -> " bitcoin"
      [] raw = "ETH" -> "ethereum"

Symbols == {Normalize(r) : r \in RawSymbols \cup BatchRawSymbols}

\* f"{svc}:quote:{symbol}"
QuoteKey(svc, symbol) == <<svc, "quote", symbol>>

\* The range codes of history requests; 10Y is a code neither service knows.
TimeRanges == {"1M", "1W", "10Y"}

\* f"{svc}:history:{symbol}:{time_range}"
HistoryKey(svc, symbol, time_range) == <<svc, "history", symbol, time_range>>

HistoryKeys ==
    {HistoryKey(s, Normalize(raw), r) :
        s \in Services, raw \in RawSymbols \cup SymbolVariants, r \in TimeRanges}

Keys == {QuoteKey(s, y) : s \in Services, y \in Symbols} \cup HistoryKeys

\* --------------------------------------------------------------- providers
\* The racing tasks of one call are named by the provider they fetch from.
Providers == {"CoinGecko", "Binance", "CoinMarketCap",
              "Yahoo", "Alpha Vantage", "Polygon"}

\* The source field each fetcher puts in the quote it builds.
SourceOf(p) ==
    CASE p = "CoinGecko" -> "coingecko"
      [] p = "Binance" -> "binance"
      [] p = "CoinMarketCap" -> "coinmarketcap"
      [] p = "Yahoo" -> "yahoo"
      [] p = "Alpha Vantage" -> "alpha_vantage"
      [] p = "Polygon" -> "polygon"

\* Mutant: every provider is raced whether or not its key is configured.
EnabledProviders_IgnoresKeys(svc, cfg) ==
    IF svc = "crypto" THEN <<"CoinGecko", "Binance", "CoinMarketCap">>
    ELSE <<"Yahoo", "Alpha Vantage", "Polygon">>

\* The tasks get_quote creates, in creation order, under the given settings.
EnabledProviders(svc, cfg) ==
    IF svc = "crypto"
    THEN <<"CoinGecko", "Binance">>
         \o (IF cfg.coinmarketcap_api_key THEN <<"CoinMarketCap">> ELSE <<>>)
    ELSE <<"Yahoo">>
         \o (IF cfg.alpha_vantage_api_key THEN <<"Alpha Vantage">> ELSE <<>>)
         \o (IF cfg.polygon_api_key THEN <<"Polygon">> ELSE <<>>)

\* ------------------------------------------------------------------ quotes
\* CryptoQuote / StockQuote: the required fields and one optional field
\* (rank: int | None = None for crypto, name: str | None = None for stock).
OptField(svc) == IF svc = "crypto" THEN "rank" ELSE "name"

OptValue(svc) == IF svc = "crypto" THEN Some(1) ELSE Some("Acme")

\* The volume of the provider answers is not varied: it is 0 in every quote a
\* fetcher builds from a valid answer.
Quote(symbol, price, opt, source, t) ==
    [symbol |-> symbol, price |-> price, volume |-> 0, opt |-> opt,
     source |-> source, updated_at |-> t]

RequiredFields == {"symbol", "price", "volume", "source", "updated_at"}

\* Mutant: the schema has no lower bound on price and volume.
ValidQuote_AcceptsAll(q) == TRUE

\* price: float = Field(ge=0) and volume: int = Field(ge=0) (volume_24h for
\* crypto): the validation every construction of a quote runs.
ValidQuote(q) == q.price >= 0 /\ q.volume >= 0

\* Mutant: the optional field is dumped even when it is None (exclude_none
\* not set).
ModelDump_KeepsNull(svc, q) ==
    [f \in RequiredFields \cup {OptField(svc)} |->
        CASE f = "symbol" -> q.symbol
          [] f = "price" -> q.price
          [] f = "volume" -> q.volume
          [] f = "source" -> q.source
          [] f = "updated_at" -> [iso |-> q.updated_at]
          [] OTHER -> q.opt]

\* quote.model_dump(mode="json") with exclude_none: a JSON object holding the
\* required fields, the optional field only when it is not None, and the
\* datetime as its ISO string.
ModelDump(svc, q) ==
    [f \in RequiredFields \cup (IF q.opt = None THEN {} ELSE {OptField(svc)}) |->
        CASE f = "symbol" -> q.symbol
          [] f = "price" -> q.price
          [] f = "volume" -> q.volume
          [] f = "source" -> q.source
          [] f = "updated_at" -> [iso |-> q.updated_at]
          [] OTHER -> q.opt[1]]

\* orjson.dumps(...): the payload stored in redis.
Dumps(obj) == [kind |-> "json", obj |-> Some(obj)]

\* Payloads this program never writes but the shared store may hold.
EmptyPayload == [kind |-> "empty", obj |-> None]
MalformedPayload == [kind |-> "malformed", obj |-> None]

\* `if cached:` -- None and the empty string are falsy.
Truthy(cached) == cached # None /\ cached[1].kind # "empty"

\* Mutant: loading never restores the optional field.
LoadQuote_DropsOptional(svc, payload) ==
    IF payload.kind # "json" THEN None
    ELSE LET data == payload.obj[1] IN
         IF ~(RequiredFields \subseteq DOMAIN data) THEN None
         ELSE LET q == [Quote(data["symbol"], data["price"], None,
                              data["source"], data["updated_at"].iso)
                           EXCEPT !.volume = data["volume"]]
              IN IF ValidQuote(q) THEN Some(q) ELSE None

\* orjson.loads(cached) followed by CryptoQuote(**data) / StockQuote(**data):
\* the quote, or None when either step raises.
LoadQuote(svc, payload) ==
    IF payload.kind # "json" THEN None
    ELSE LET data == payload.obj[1] IN
         IF ~(RequiredFields \subseteq DOMAIN data) THEN None
         ELSE LET q == [Quote(data["symbol"], data["price"],
                              IF OptField(svc) \in DOMAIN data
                              THEN Some(data[OptField(svc)]) ELSE None,
                              data["source"], data["updated_at"].iso)
                           EXCEPT !.volume = data["volume"]]
              IN IF ValidQuote(q) THEN Some(q) ELSE None

\* ------------------------------------------------------------------- state
VARIABLES
    cache,      \* redis: key -> None | Some([payload, expires, by]); by is
                \* history: the call whose SETEX stored the entry
    now,        \* wall clock, seconds
    asset,      \* the asset class served: requests of the two services share
                \* neither keys nor tasks, so a behaviour follows one of them
    settings,   \* which optional API keys are configured
    call,       \* the get_quote coroutines
    batch,      \* the get_batch_quotes coroutine
    hist,       \* the get_history coroutines
    service     \* per request: the service instance and the route handler

vars == <<cache, now, asset, settings, call, batch, hist, service>>

\* redis GET: the payload, or None when the key is absent or expired.
RedisGet(store, key, t) ==
    IF store[key] # None /\ t < store[key][1].expires
    THEN Some(store[key][1].payload)
    ELSE None

\* redis SETEX key ttl payload
RedisSetex(store, key, ttl, payload, t, by) ==
    [store EXCEPT ![key] = Some([payload |-> payload, expires |-> t + ttl, by |-> by])]

\* A fetch task: its status and the quote it produced.
NoTask == [st |-> "none", q |-> None]

IdleCall ==
    [pc |-> "idle", svc |-> "", symbol |-> "", tasks |-> <<>>,
     task_sources |-> <<>>, symbol_not_found |-> FALSE, errors |-> <<>>,
     cached |-> None, quote |-> None,
     \* history, read by no action: the first task to succeed, the task whose
     \* result was taken, the payloads this call stored, the time it ended
     first_ok |-> None, winner |-> None, wrote |-> <<>>, done_at |-> 0,
     result |-> [kind |-> "none", quote |-> None, errors |-> <<>>],
     att |-> [p \in Providers |-> NoTask]]

\* A get_history coroutine.
IdleHist ==
    [pc |-> "idle", svc |-> "", symbol |-> "", time_range |-> "",
     cached |-> None, history |-> <<>>,
     \* history: the provider fetches made and the provider asked, the
     \* exception the except clause swallowed, the payloads stored, the outcome
     fetches |-> 0, provider |-> "", params |-> None, caught |-> None,
     wrote |-> <<>>, done_at |-> 0,
     result |-> [kind |-> "none", series |-> <<>>]]

\* A route handler creates its own service: StockService(redis) /
\* CryptoService(redis) with _http_client = None. The fallback get_quote calls
\* of a batch run on the batch's service.
ServiceIds ==
    {<<"quote", c>> : c \in CallIds} \cup {<<"batch", BatchId>>}
        \cup {<<"history", h>> : h \in HistIds}

ServiceOf(c) == IF c \in ChildIds THEN <<"batch", BatchId>> ELSE <<"quote", c>>

NewService ==
    [http_client |-> "none",
     \* the route handler: "open" until its finally clause runs; the status
     \* it answers with
     pc |-> "open", status |-> NoStatus,
     \* history: clients created, clients closed, close() calls
     opened |-> 0, aclosed |-> 0, closes |-> 0]

IdleBatch ==
    [pc |-> "idle", symbols |-> <<>>, symbol_to_id |-> <<>>, coin_ids |-> <<>>,
     data |-> {}, pos |-> 0, quotes |-> <<>>, result |-> <<>>,
     \* history: the response the bulk path worked through, the exception
     \* that ended it, the keys it stored, the bulk HTTP calls made
     response |-> None, bulk_error |-> None, wrote |-> <<>>, bulk_calls |-> 0]

Init ==
    /\ cache = [k \in Keys |-> None]
    /\ now = 0
    /\ asset \in Services
    /\ settings \in [coinmarketcap_api_key : BOOLEAN,
                     alpha_vantage_api_key : BOOLEAN,
                     polygon_api_key : BOOLEAN]
    /\ asset = "crypto" => ~settings.alpha_vantage_api_key /\ ~settings.polygon_api_key
    /\ asset = "stock" => ~settings.coinmarketcap_api_key
    /\ call = [c \in CallIds \cup ChildIds |-> IdleCall]
    /\ batch = IdleBatch
    /\ hist = [h \in HistIds |-> IdleHist]
    /\ service = [r \in ServiceIds |-> NewService]

\* ------------------------------------------------------------ small helpers
Range(s) == {s[i] : i \in DOMAIN s}

\* Every order in which a set can be iterated or turned into a list.
Orders(S) ==
    {s \in [1 .. Cardinality(S) -> S] : \A i, j \in DOMAIN s : s[i] = s[j] => i = j}

\* list.index(x), 1-based; 0 when x is not in the list.
IndexOf(s, x) ==
    IF x \in Range(s) THEN CHOOSE i \in DOMAIN s : s[i] = x /\ \A j \in 1 .. i - 1 : s[j] # x
    ELSE 0

\* --------------------------------------------------------------- get_quote
Return(me, q, t) ==
    [me EXCEPT !.pc = "done", !.done_at = t,
               !.result = [kind |-> "quote", quote |-> Some(q), errors |-> <<>>]]

Raise(me, kind, errors, t) ==
    [me EXCEPT !.pc = "done", !.done_at = t,
               !.result = [kind |-> kind, quote |-> None, errors |-> errors]]

\* The exception raised when every source failed and none said not-found.
ExhaustedError(svc) ==
    IF svc = "crypto" THEN "AllSourcesExhaustedError" ELSE "StockServiceError"

\* A request enters get_quote: the symbol is normalised, the key is built and
\* the coroutine awaits redis.get.
GetQuote(c, raw) ==
    /\ call[c].pc = "idle"
    /\ call' = [call EXCEPT ![c] =
                   [IdleCall EXCEPT !.pc = "redis_get", !.svc = asset,
                                    !.symbol = Normalize(raw)]]
    /\ UNCHANGED <<cache, now, asset, settings, batch, hist, service>>

\* asyncio.create_task for every enabled source.
CreateTasks(me, cfg) ==
    LET created == EnabledProviders(me.svc, cfg) IN
    [me EXCEPT !.pc = "wait",
               !.tasks = created,
               !.task_sources = created,
               !.att = [p \in Providers |->
                          IF p \in Range(created)
                          THEN [st |-> "pending", q |-> None] ELSE NoTask]]

\* The fetch tasks created so far, over all calls.
RECURSIVE Fetches(_)
Fetches(cs) ==
    IF cs = {} THEN 0
    ELSE LET c == CHOOSE x \in cs : TRUE IN
         Cardinality({p \in Providers : call[c].att[p].st # "none"})
         + Fetches(cs \ {c})

\* Yahoo is fetched through yfinance in a thread; every other fetcher starts
\* with client = await self._get_http_client().
UsesHttpClient(p) == p # "Yahoo"

\* Mutant: a client is created on every call.
GetHttpClient_AlwaysNew(s) ==
    [s EXCEPT !.http_client = "open", !.opened = @ + 1]

\* _get_http_client: the client is created on first use.
GetHttpClient(s) ==
    IF s.http_client = "none"
    THEN [s EXCEPT !.http_client = "open", !.opened = @ + 1]
    ELSE s

\* Mutant: the cache is not consulted; the race always starts.
CacheCheck_SkipsCache(c) ==
    /\ call[c].pc = "redis_get"
    /\ Fetches(CallIds \cup ChildIds)
          + Len(EnabledProviders(call[c].svc, settings)) <= MaxFetches
    /\ call' = [call EXCEPT ![c] = CreateTasks(call[c], settings)]
    /\ service' = [service EXCEPT ![ServiceOf(c)] = GetHttpClient(@)]
    /\ UNCHANGED <<cache, now, asset, settings, batch, hist>>

\* redis.get returns: a truthy payload is deserialised and returned (a payload
\* that does not load raises out of get_quote); otherwise the race starts and
\* the created tasks run up to their first await, taking the HTTP client.
CacheCheck(c) ==
    /\ call[c].pc = "redis_get"
    /\ LET me == call[c]
           cached == RedisGet(cache, QuoteKey(me.svc, me.symbol), now)
           seen == [me EXCEPT !.cached = cached]
       IN /\ ~Truthy(cached) =>
                Fetches(CallIds \cup ChildIds) + Len(EnabledProviders(me.svc, settings)) <= MaxFetches
          /\ call' = [call EXCEPT ![c] =
                     IF Truthy(cached)
                     THEN LET q == LoadQuote(me.svc, cached[1]) IN
                          IF q = None
                          THEN Raise(seen, "DeserializationError", <<>>, now)
                          ELSE Return(seen, q[1], now)
                     ELSE CreateTasks(seen, settings)]
          /\ service' =
                IF ~Truthy(cached)
                   /\ \E p \in Range(EnabledProviders(me.svc, settings)) : UsesHttpClient(p)
                THEN [service EXCEPT ![ServiceOf(c)] = GetHttpClient(@)]
                ELSE service
    /\ UNCHANGED <<cache, now, asset, settings, batch, hist>>

\* The optional field a fetcher may fill: Binance, Alpha Vantage and Polygon
\* always leave it None.
OptChoices(svc, p) ==
    IF p \in {"Binance", "Alpha Vantage", "Polygon"} THEN {None}
    ELSE {None, OptValue(svc)}

\* The text of the exception a failed fetch of provider p raises.
FailureMessage(p) == <<"error", SourceOf(p)>>

NotFoundText == <<"symbol not found">>

\* Task.done(): finished with a result or an exception. A cancelled task is
\* done once the CancelledError has been delivered to it.
Completed(me) ==
    {p \in Providers : me.att[p].st \in {"ok", "notfound", "error", "discarded"}}

\* One fetch task finishes: with a quote stamped datetime.now(), with
\* SymbolNotFoundError, or with any other exception.
FetchSucceeds(c, p) ==
    /\ call[c].att[p].st = "pending"
    /\ \E price \in Prices, opt \in OptChoices(call[c].svc, p) :
         call' = [call EXCEPT
                    ![c].att[p] =
                        [st |-> "ok",
                         q |-> Some(Quote(call[c].symbol, price, opt, SourceOf(p), now))],
                    ![c].first_ok = IF @ = None THEN Some(p) ELSE @]
    /\ UNCHANGED <<cache, now, asset, settings, batch, hist, service>>

FetchFails(c, p) ==
    /\ call[c].att[p].st = "pending"
    /\ \E st \in {"notfound", "error"} :
         call' = [call EXCEPT ![c].att[p] =
                    [st |-> st, q |-> None]]
    /\ UNCHANGED <<cache, now, asset, settings, batch, hist, service>>

\* What a provider may answer that the schema rejects: a negative price, or
\* a negative volume.
InvalidAnswers ==
    {[price |-> InvalidPrice, volume |-> 0], [price |-> MaxPrice, volume |-> InvalidPrice]}

\* One fetch task gets such an answer: the construction of the quote raises
\* ValidationError and the task ends with that exception.
FetchRejected(c, p) ==
    /\ call[c].att[p].st = "pending"
    /\ \E answer \in InvalidAnswers :
         LET q == [Quote(call[c].symbol, answer.price, None, SourceOf(p), now)
                     EXCEPT !.volume = answer.volume]
         IN call' = [call EXCEPT
                       ![c].att[p] = IF ValidQuote(q) THEN [st |-> "ok", q |-> Some(q)]
                                     ELSE [st |-> "error", q |-> None],
                       ![c].first_ok = IF ValidQuote(q) /\ @ = None THEN Some(p) ELSE @]
    /\ UNCHANGED <<cache, now, asset, settings, batch, hist, service>>

\* errors.append(f"{source}: {e}")
ErrorEntry(source, e) == [source |-> source, e |-> e]

\* Mutant: a not-found answer is recorded but the flag is not set.
ExamineOne_NoFlag(completed_task, me, acc) ==
    LET source == me.task_sources[IndexOf(me.tasks, completed_task)]
        st == me.att[completed_task].st
    IN CASE st = "ok" ->
              [acc EXCEPT !.quote = me.att[completed_task].q,
                          !.winner = Some(completed_task)]
         [] st = "notfound" ->
              [acc EXCEPT !.errors = Append(@, ErrorEntry(source, NotFoundText))]
         [] OTHER ->
              [acc EXCEPT !.errors =
                  Append(@, ErrorEntry(source, FailureMessage(completed_task)))]

\* Mutant: a transient failure replaces the error list instead of joining it.
ExamineOne_Overwrites(completed_task, me, acc) ==
    LET source == me.task_sources[IndexOf(me.tasks, completed_task)]
        st == me.att[completed_task].st
    IN CASE st = "ok" ->
              [acc EXCEPT !.quote = me.att[completed_task].q,
                          !.winner = Some(completed_task)]
         [] st = "notfound" ->
              [acc EXCEPT !.symbol_not_found = TRUE,
                          !.errors = Append(@, ErrorEntry(source, NotFoundText))]
         [] OTHER ->
              [acc EXCEPT !.errors =
                  <<ErrorEntry(source, FailureMessage(completed_task))>>]

\* Mutant: only SymbolNotFoundError is caught; any other exception of a fetch
\* leaves get_quote as it is.
ExamineOne_Uncaught(completed_task, me, acc) ==
    LET source == me.task_sources[IndexOf(me.tasks, completed_task)]
        st == me.att[completed_task].st
    IN CASE st = "ok" ->
              [acc EXCEPT !.quote = me.att[completed_task].q,
                          !.winner = Some(completed_task)]
         [] st = "notfound" ->
              [acc EXCEPT !.symbol_not_found = TRUE,
                          !.errors = Append(@, ErrorEntry(source, NotFoundText))]
         [] OTHER ->
              [acc EXCEPT !.raised = Some("HTTPStatusError")]

\* The loop body for one completed task: its source label is looked up by
\* position, result() is taken, and the outcome is recorded. result() of a
\* cancelled task raises CancelledError, which is not an Exception and so
\* escapes both except clauses (acc.raised).
ExamineOne(completed_task, me, acc) ==
    LET task_idx == IndexOf(me.tasks, completed_task)
        source == IF task_idx > 0 THEN me.task_sources[task_idx] ELSE "Unknown"
        st == me.att[completed_task].st
    IN CASE st = "ok" ->
              [acc EXCEPT !.quote = me.att[completed_task].q,
                          !.winner = Some(completed_task)]
         [] st = "notfound" ->
              [acc EXCEPT !.symbol_not_found = TRUE,
                          !.errors = Append(@, ErrorEntry(source, NotFoundText))]
         [] st = "error" ->
              [acc EXCEPT !.errors =
                  Append(@, ErrorEntry(source, FailureMessage(completed_task)))]
         [] OTHER ->
              [acc EXCEPT !.raised = Some("CancelledError")]

\* Mutant: only one task of the done set is examined.
ExamineDone_FirstOnly(order, me, acc) ==
    IF order = <<>> THEN acc ELSE ExamineOne(Head(order), me, acc)

\* for completed_task in done: ... over the done set in the order the set
\* yields it; a success (return) or an escaping exception leaves the loop.
RECURSIVE ExamineDone(_, _, _)
ExamineDone(order, me, acc) ==
    IF order = <<>> \/ acc.quote # None \/ acc.raised # None THEN acc
    ELSE ExamineDone(Tail(order), me, ExamineOne(Head(order), me, acc))

\* The rebuild of task_sources after tasks = list(pending): for every task
\* the source at the first position of the NEW list holding that task.
RECURSIVE RemainingSources(_, _, _)
RemainingSources(tasks, task_sources, j) ==
    IF j > Len(tasks) THEN <<>>
    ELSE LET hits == {i \in 1 .. Len(tasks) :
                         tasks[i] = tasks[j] /\ i <= Len(task_sources)}
             first == CHOOSE i \in hits : \A k \in hits : i <= k
         IN (IF hits = {} THEN <<>> ELSE <<task_sources[first]>>)
            \o RemainingSources(tasks, task_sources, j + 1)

\* Mutant: only one task of the pending set is cancelled.
Cancel_OneOnly(att, pending) ==
    [p \in Providers |->
        IF pending # {} /\ p = (CHOOSE x \in pending : TRUE)
        THEN [att[p] EXCEPT !.st = "cancelled"] ELSE att[p]]

\* task.cancel() for every task of the pending set.
Cancel(att, pending) ==
    [p \in Providers |-> IF p \in pending THEN [att[p] EXCEPT !.st = "cancelled"]
                         ELSE att[p]]

\* Mutant: the loop gives up at the first wake-up that finds no success,
\* whatever is still pending.
RaceWake_RaisesEarly(c) ==
    /\ call[c].pc = "wait"
    /\ LET me == call[c]
           done == Range(me.tasks) \cap Completed(me)
           pending == Range(me.tasks) \ done
       IN /\ done # {}
          /\ \E order \in Orders(done) :
               LET acc == ExamineDone(order, me,
                             [quote |-> None, winner |-> None, raised |-> None,
                              symbol_not_found |-> me.symbol_not_found,
                              errors |-> me.errors])
                   seen == [me EXCEPT !.symbol_not_found = acc.symbol_not_found,
                                      !.errors = acc.errors]
               IN call' = [call EXCEPT ![c] =
                     IF acc.raised # None
                     THEN Raise(seen, acc.raised[1], <<>>, now)
                     ELSE IF acc.quote # None
                     THEN [seen EXCEPT !.pc = "cache_quote",
                                       !.quote = acc.quote,
                                       !.winner = acc.winner,
                                       !.att = Cancel(me.att, pending)]
                     ELSE IF seen.symbol_not_found
                     THEN Raise(seen, "SymbolNotFoundError", <<>>, now)
                     ELSE Raise(seen, ExhaustedError(me.svc), seen.errors, now)]
    /\ UNCHANGED <<cache, now, asset, settings, batch, hist, service>>

\* Mutant: the task list is not cut down to the pending set.
RaceWake_KeepsTasks(c) ==
    /\ call[c].pc = "wait"
    /\ LET me == call[c]
           done == Range(me.tasks) \cap Completed(me)
           pending == Range(me.tasks) \ done
       IN /\ done # {}
          /\ \E order \in Orders(done) :
               LET acc == ExamineDone(order, me,
                             [quote |-> None, winner |-> None, raised |-> None,
                              symbol_not_found |-> me.symbol_not_found,
                              errors |-> me.errors])
                   seen == [me EXCEPT !.symbol_not_found = acc.symbol_not_found,
                                      !.errors = acc.errors]
               IN call' = [call EXCEPT ![c] =
                     IF acc.raised # None
                     THEN Raise(seen, acc.raised[1], <<>>, now)
                     ELSE IF acc.quote # None
                     THEN [seen EXCEPT !.pc = "cache_quote",
                                       !.quote = acc.quote,
                                       !.winner = acc.winner,
                                       !.att = Cancel(me.att, pending)]
                     ELSE seen]
    /\ UNCHANGED <<cache, now, asset, settings, batch, hist, service>>

\* Mutant: a race that ends in failure stores an empty marker under the key.
RaceWake_CachesFailure(c) ==
    /\ call[c].pc = "wait"
    /\ LET me == call[c]
           done == Range(me.tasks) \cap Completed(me)
           pending == Range(me.tasks) \ done
       IN /\ done # {}
          /\ \E order \in Orders(done), new_tasks \in Orders(pending) :
               LET acc == ExamineDone(order, me,
                             [quote |-> None, winner |-> None, raised |-> None,
                              symbol_not_found |-> me.symbol_not_found,
                              errors |-> me.errors])
                   seen == [me EXCEPT !.symbol_not_found = acc.symbol_not_found,
                                      !.errors = acc.errors]
                   remaining_sources == RemainingSources(new_tasks, me.task_sources, 1)
                   looped == [seen EXCEPT
                                !.tasks = new_tasks,
                                !.task_sources =
                                    IF remaining_sources # <<>> THEN remaining_sources
                                    ELSE SubSeq(me.task_sources, 1, Len(new_tasks))]
               IN call' = [call EXCEPT ![c] =
                     IF acc.raised # None
                     THEN Raise(seen, acc.raised[1], <<>>, now)
                     ELSE IF acc.quote # None
                     THEN [seen EXCEPT !.pc = "cache_quote",
                                       !.quote = acc.quote,
                                       !.winner = acc.winner,
                                       !.att = Cancel(me.att, pending)]
                     ELSE IF new_tasks # <<>> THEN looped
                     ELSE IF looped.symbol_not_found
                     THEN Raise(looped, "SymbolNotFoundError", <<>>, now)
                     ELSE Raise(looped, ExhaustedError(me.svc), looped.errors, now)]
    /\ cache' = IF call'[c].pc = "done" /\ call'[c].result.kind # "quote"
                THEN RedisSetex(cache, QuoteKey(call[c].svc, call[c].symbol),
                                cache_ttl_seconds, EmptyPayload, now, c)
                ELSE cache
    /\ UNCHANGED <<now, asset, settings, batch, hist, service>>

\* asyncio.wait(tasks, return_when=FIRST_COMPLETED) returns with every task
\* that is done by then; the loop body runs up to the next await or raise.
RaceWake(c) ==
    /\ call[c].pc = "wait"
    /\ LET me == call[c]
           done == Range(me.tasks) \cap Completed(me)
           pending == Range(me.tasks) \ done
       IN /\ done # {}
          /\ \E order \in Orders(done), new_tasks \in Orders(pending) :
               LET acc == ExamineDone(order, me,
                             [quote |-> None, winner |-> None, raised |-> None,
                              symbol_not_found |-> me.symbol_not_found,
                              errors |-> me.errors])
                   seen == [me EXCEPT !.symbol_not_found = acc.symbol_not_found,
                                      !.errors = acc.errors]
                   remaining_sources == RemainingSources(new_tasks, me.task_sources, 1)
                   looped == [seen EXCEPT
                                !.tasks = new_tasks,
                                !.task_sources =
                                    IF remaining_sources # <<>> THEN remaining_sources
                                    ELSE SubSeq(me.task_sources, 1, Len(new_tasks))]
               IN call' = [call EXCEPT ![c] =
                     IF acc.raised # None
                     THEN Raise(seen, acc.raised[1], <<>>, now)
                     ELSE IF acc.quote # None
                     THEN [seen EXCEPT !.pc = "cache_quote",
                                       !.quote = acc.quote,
                                       !.winner = acc.winner,
                                       !.att = Cancel(me.att, pending)]
                     ELSE IF new_tasks # <<>> THEN looped
                     ELSE IF looped.symbol_not_found
                     THEN Raise(looped, "SymbolNotFoundError", <<>>, now)
                     ELSE Raise(looped, ExhaustedError(me.svc), looped.errors, now)]
    /\ UNCHANGED <<cache, now, asset, settings, batch, hist, service>>

\* Mutant: the quote is returned without the write having happened.
CacheQuote_ReturnsFirst(c) ==
    /\ call[c].pc = "cache_quote"
    /\ call' = [call EXCEPT ![c] = Return(call[c], call[c].quote[1], now)]
    /\ UNCHANGED <<cache, now, asset, settings, batch, hist, service>>

\* Mutant: the quote is stored with the history TTL.
CacheQuote_HistoryTtl(c) ==
    /\ call[c].pc = "cache_quote"
    /\ LET me == call[c]
           payload == Dumps(ModelDump(me.svc, me.quote[1]))
       IN /\ cache' = RedisSetex(cache, QuoteKey(me.svc, me.symbol),
                                 cache_history_ttl_seconds, payload, now, c)
          /\ call' = [call EXCEPT ![c] =
                        Return([me EXCEPT !.wrote = Append(@, payload)],
                               me.quote[1], now)]
    /\ UNCHANGED <<now, asset, settings, batch, hist, service>>

\* _cache_quote: SETEX of the dumped quote with the quote TTL, then return quote.
CacheQuote(c) ==
    /\ call[c].pc = "cache_quote"
    /\ LET me == call[c]
           payload == Dumps(ModelDump(me.svc, me.quote[1]))
       IN /\ cache' = RedisSetex(cache, QuoteKey(me.svc, me.symbol),
                                 cache_ttl_seconds, payload, now, c)
          /\ call' = [call EXCEPT ![c] =
                        Return([me EXCEPT !.wrote = Append(@, payload)],
                               me.quote[1], now)]
    /\ UNCHANGED <<now, asset, settings, batch, hist, service>>

\* Mutant: the answer of a cancelled fetch is stored in the cache.
CancelledTaskEnds_Caches(c, p) ==
    /\ call[c].att[p].st = "cancelled"
    /\ LET me == call[c]
           payload == Dumps(ModelDump(me.svc,
                         Quote(me.symbol, MaxPrice, None, SourceOf(p), now)))
       IN /\ cache' = RedisSetex(cache, QuoteKey(me.svc, me.symbol),
                                 cache_ttl_seconds, payload, now, c)
          /\ call' = [call EXCEPT ![c].att[p].st = "discarded",
                                  ![c].wrote = Append(@, payload)]
    /\ UNCHANGED <<now, asset, settings, batch, hist, service>>

\* A cancelled task ends: CancelledError reaches it at its await, and what
\* the upstream still answers is discarded.
CancelledTaskEnds(c, p) ==
    /\ call[c].att[p].st = "cancelled"
    /\ call' = [call EXCEPT ![c].att[p].st = "discarded"]
    /\ UNCHANGED <<cache, now, asset, settings, batch, hist, service>>

Tick ==
    /\ now + TickStep <= MaxTime
    /\ now' = now + TickStep
    /\ UNCHANGED <<cache, asset, settings, call, batch, hist, service>>

Next ==
    \/ \E c \in CallIds, raw \in RawSymbols : GetQuote(c, raw)
    \/ \E c \in CallIds : CacheCheck(c)
    \/ \E c \in CallIds, p \in Providers : FetchSucceeds(c, p)
    \/ \E c \in CallIds, p \in Providers : FetchFails(c, p)
    \/ \E c \in CallIds : RaceWake(c)
    \/ \E c \in CallIds : CacheQuote(c)
    \/ \E c \in CallIds, p \in Providers : CancelledTaskEnds(c, p)
    \/ Tick

Spec == Init /\ [][Next]_vars

\* -------------------------------------------------------- get_batch_quotes
\* Requests of up to MaxBatch raw symbols.
BatchRequests == UNION {[1 .. n -> BatchRawSymbols] : n \in 0 .. MaxBatch}

\* symbol_to_id[coin_id] = symbol_upper over the request, as the dict's
\* items(): a key keeps the place of its first insertion and the value of its
\* last.
RECURSIVE SymbolToId(_, _)
SymbolToId(symbols, items) ==
    IF symbols = <<>> THEN items
    ELSE LET coin_id == CoinGeckoId(Head(symbols))
             symbol_upper == Normalize(Head(symbols))
             at == {i \in DOMAIN items : items[i].coin_id = coin_id}
         IN SymbolToId(Tail(symbols),
               IF at = {}
               THEN Append(items, [coin_id |-> coin_id, symbol |-> symbol_upper])
               ELSE [i \in DOMAIN items |->
                       IF i \in at THEN [items[i] EXCEPT !.symbol = symbol_upper]
                       ELSE items[i]])

\* coin_ids.append(coin_id) for every requested symbol.
CoinIds(symbols) == [i \in DOMAIN symbols |-> CoinGeckoId(symbols[i])]

\* What /coins/markets may answer for the requested ids: any of them, each at
\* most once, with a price and a market_cap_rank.
Coins(ids) ==
    {[id |-> i, price |-> pr, rank |-> r] :
        i \in ids, pr \in Prices \cup {InvalidPrice}, r \in {None, Some(1)}}

BulkResponses(ids) ==
    {d \in SUBSET Coins(ids) : \A a, b \in d : a.id = b.id => a = b}

\* Mutant: when the bulk path raises after it built quotes, the quotes it
\* built so far are returned.
FallbackBatch_ReturnsPartial(b, reason) ==
    IF b.quotes # <<>>
    THEN [b EXCEPT !.pc = "done", !.result = b.quotes, !.bulk_error = Some(reason)]
    ELSE [b EXCEPT !.pc = "gather", !.data = {}, !.pos = 0, !.quotes = <<>>,
                   !.response = None, !.bulk_error = Some(reason)]

\* The bulk call raised: its locals are gone and get_batch_quotes goes on to
\* gather one get_quote per requested symbol.
FallbackBatch(b, reason) ==
    [b EXCEPT !.pc = "gather", !.data = {}, !.pos = 0, !.quotes = <<>>,
              !.response = None, !.bulk_error = Some(reason)]

\* Mutant: only the first requested symbol is resolved.
StartChildren_FirstOnly(symbols) ==
    [c \in DOMAIN call |->
        IF c = NumCalls + 1 /\ symbols # <<>>
        THEN [IdleCall EXCEPT !.pc = "redis_get", !.svc = asset,
                              !.symbol = Normalize(symbols[1])]
        ELSE call[c]]

\* tasks = [self.get_quote(symbol) for symbol in symbols] under gather: every
\* child normalises its symbol and awaits redis.get.
StartChildren(symbols) ==
    [c \in DOMAIN call |->
        IF c \in ChildIds /\ c - NumCalls <= Len(symbols)
        THEN [IdleCall EXCEPT !.pc = "redis_get", !.svc = asset,
                              !.symbol = Normalize(symbols[c - NumCalls])]
        ELSE call[c]]

\* The children a batch record implies for the call table.
ChildrenOf(b) == IF b.pc = "gather" THEN StartChildren(b.symbols) ELSE call

\* Mutant: a requested id the response lacks raises (id_to_coin[coin_id]).
BulkLoop_MissingRaises(b, from) ==
    LET items == b.symbol_to_id
        missing == {i \in from .. Len(items) :
                       \A coin \in b.data : coin.id # items[i].coin_id}
    IN IF missing # {} THEN FallbackBatch(b, "KeyError")
       ELSE IF from > Len(items) THEN [b EXCEPT !.pc = "done", !.result = b.quotes]
       ELSE LET coin == CHOOSE coin \in b.data : coin.id = items[from].coin_id
            IN [b EXCEPT !.pc = "cache_quote", !.pos = from,
                         !.quotes = Append(@, Quote(items[from].symbol, coin.price,
                                                    coin.rank, "coingecko", now))]

\* Mutant: a bulk response that yields no quote sends the batch to the
\* per-symbol path.
BulkLoop_EmptyFallsBack(b, from) ==
    LET items == b.symbol_to_id
        present == {i \in from .. Len(items) :
                       \E coin \in b.data : coin.id = items[i].coin_id}
    IN IF present = {} /\ b.quotes = <<>> THEN [b EXCEPT !.pc = "gather"]
       ELSE IF present = {} THEN [b EXCEPT !.pc = "done", !.result = b.quotes]
       ELSE LET i == CHOOSE x \in present : \A y \in present : x <= y
                coin == CHOOSE coin \in b.data : coin.id = items[i].coin_id
                quote == Quote(items[i].symbol, coin.price, coin.rank, "coingecko", now)
            IN IF ~ValidQuote(quote) THEN FallbackBatch(b, "ValidationError")
               ELSE [b EXCEPT !.pc = "cache_quote", !.pos = i,
                              !.quotes = Append(@, quote)]

\* for coin_id, symbol in symbol_to_id.items(), from item `from` up to the next
\* await: items the response lacks are skipped; the first one it holds is
\* built into a CryptoQuote (which may fail validation), appended, and the
\* coroutine awaits _cache_quote; past the last item quotes is returned.
BulkLoop(b, from) ==
    LET items == b.symbol_to_id
        present == {i \in from .. Len(items) :
                       \E coin \in b.data : coin.id = items[i].coin_id}
    IN IF present = {} THEN [b EXCEPT !.pc = "done", !.result = b.quotes]
       ELSE LET i == CHOOSE x \in present : \A y \in present : x <= y
                coin == CHOOSE coin \in b.data : coin.id = items[i].coin_id
                quote == Quote(items[i].symbol, coin.price, coin.rank, "coingecko", now)
            IN IF ~ValidQuote(quote) THEN FallbackBatch(b, "ValidationError")
               ELSE [b EXCEPT !.pc = "cache_quote", !.pos = i,
                              !.quotes = Append(@, quote)]

\* Mutant: the batch first looks the symbols up in the cache and skips the
\* bulk call when every one of them has a fresh entry.
GetBatchQuotes_CacheFirst(symbols) ==
    /\ batch.pc = "idle"
    /\ asset = "crypto"
    /\ LET fresh == \A i \in DOMAIN symbols :
                       Truthy(RedisGet(cache, QuoteKey("crypto", Normalize(symbols[i])), now))
       IN batch' = IF symbols = <<>> \/ fresh
                   THEN [IdleBatch EXCEPT !.pc = "done", !.symbols = symbols]
                   ELSE [IdleBatch EXCEPT !.pc = "http_get", !.symbols = symbols,
                                          !.bulk_calls = 1,
                                          !.symbol_to_id = SymbolToId(symbols, <<>>),
                                          !.coin_ids = CoinIds(symbols)]
    /\ UNCHANGED <<cache, now, asset, settings, call, hist, service>>

\* get_batch_quotes is entered. Crypto: an empty request returns []; otherwise
\* the HTTP client is taken, the ids are built and the coroutine awaits the
\* bulk HTTP call. Stock: one get_quote per symbol is gathered.
GetBatchQuotes(symbols) ==
    /\ batch.pc = "idle"
    /\ batch' = IF asset = "stock"
                THEN [IdleBatch EXCEPT !.pc = "gather", !.symbols = symbols]
                ELSE IF symbols = <<>>
                THEN [IdleBatch EXCEPT !.pc = "done"]
                ELSE [IdleBatch EXCEPT !.pc = "http_get", !.symbols = symbols,
                                       !.bulk_calls = 1,
                                       !.symbol_to_id = SymbolToId(symbols, <<>>),
                                       !.coin_ids = CoinIds(symbols)]
    /\ call' = IF asset = "stock" THEN StartChildren(symbols) ELSE call
    /\ service' = IF asset = "crypto" /\ symbols # <<>>
                  THEN [service EXCEPT ![<<"batch", BatchId>>] = GetHttpClient(@)]
                  ELSE service
    /\ UNCHANGED <<cache, now, asset, settings, hist>>

\* The bulk call answers 200 with a list of coins.
BulkResponds ==
    /\ batch.pc = "http_get"
    /\ \E data \in BulkResponses(Range(batch.coin_ids)) :
         batch' = BulkLoop([batch EXCEPT !.data = data, !.response = Some(data)], 1)
    /\ call' = ChildrenOf(batch')
    /\ UNCHANGED <<cache, now, asset, settings, hist, service>>

\* The bulk call raises (network error, 429, 5xx, a body that is not JSON).
BulkFails ==
    /\ batch.pc = "http_get"
    /\ batch' = FallbackBatch(batch, "HTTPError")
    /\ call' = ChildrenOf(batch')
    /\ UNCHANGED <<cache, now, asset, settings, hist, service>>

\* Mutant: the bulk path stores nothing.
BatchCacheQuote_NoWrite ==
    /\ batch.pc = "cache_quote"
    /\ batch' = BulkLoop(batch, batch.pos + 1)
    /\ call' = ChildrenOf(batch')
    /\ UNCHANGED <<cache, now, asset, settings, hist, service>>

\* Mutant: every quote of the bulk path is stored under the key of the first
\* item.
BatchCacheQuote_FirstKey ==
    /\ batch.pc = "cache_quote"
    /\ LET quote == batch.quotes[Len(batch.quotes)]
           cache_key == QuoteKey("crypto", batch.symbol_to_id[1].symbol)
       IN /\ cache' = RedisSetex(cache, cache_key, cache_ttl_seconds,
                                 Dumps(ModelDump("crypto", quote)), now, BatchId)
          /\ batch' = BulkLoop([batch EXCEPT !.wrote = Append(@, cache_key)],
                               batch.pos + 1)
    /\ call' = ChildrenOf(batch')
    /\ UNCHANGED <<now, asset, settings, hist, service>>

\* _cache_quote of the quote just appended returns; the loop goes on.
BatchCacheQuote ==
    /\ batch.pc = "cache_quote"
    /\ LET quote == batch.quotes[Len(batch.quotes)]
           cache_key == QuoteKey("crypto", quote.symbol)
       IN /\ cache' = RedisSetex(cache, cache_key, cache_ttl_seconds,
                                 Dumps(ModelDump("crypto", quote)), now, BatchId)
          /\ batch' = BulkLoop([batch EXCEPT !.wrote = Append(@, cache_key)],
                               batch.pos + 1)
    /\ call' = ChildrenOf(batch')
    /\ UNCHANGED <<now, asset, settings, hist, service>>

\* Mutant: only a not-found result is recognised as a failure.
IsException_NotFoundOnly(res) == res.kind = "SymbolNotFoundError"

\* isinstance(result, Exception): CancelledError is not one.
IsException(res) == res.kind \notin {"quote", "CancelledError"}

\* for symbol, result in zip(symbols, results): exceptions are dropped,
\* everything else is appended.
RECURSIVE Collect(_, _)
Collect(n, i) ==
    IF i > n THEN <<>>
    ELSE LET res == call[NumCalls + i].result
         IN (IF IsException(res) THEN <<>>
             ELSE IF res.kind = "quote" THEN <<res.quote[1]>>
             ELSE <<res>>)
            \o Collect(n, i + 1)

\* asyncio.gather(*tasks, return_exceptions=True) returns once every child is
\* done.
Gather ==
    /\ batch.pc = "gather"
    /\ \A i \in 1 .. Len(batch.symbols) : call[NumCalls + i].pc = "done"
    /\ batch' = [batch EXCEPT !.pc = "done",
                              !.result = Collect(Len(batch.symbols), 1)]
    /\ UNCHANGED <<cache, now, asset, settings, call, hist, service>>

NextBatch ==
    \/ \E symbols \in BatchRequests : GetBatchQuotes(symbols)
    \/ BulkResponds
    \/ BulkFails
    \/ BatchCacheQuote
    \/ Gather
    \/ \E c \in ChildIds : CacheCheck(c)
    \/ \E c \in ChildIds, p \in Providers : FetchSucceeds(c, p)
    \/ \E c \in ChildIds, p \in Providers : FetchFails(c, p)
    \/ \E c \in ChildIds, p \in Providers : FetchRejected(c, p)
    \/ \E c \in ChildIds : RaceWake(c)
    \/ \E c \in ChildIds : CacheQuote(c)
    \/ \E c \in ChildIds, p \in Providers : CancelledTaskEnds(c, p)

\* The batch behaviours run under the default settings: no optional API key.
InitBatch ==
    /\ Init
    /\ settings = [coinmarketcap_api_key |-> FALSE,
                   alpha_vantage_api_key |-> FALSE,
                   polygon_api_key |-> FALSE]

SpecBatch == InitBatch /\ [][NextBatch]_vars

\* ----------------------------------------- single quotes around a bulk batch
\* The get_quote request that runs before, during or after the batch.
Reader == CHOOSE c \in CallIds : \A d \in CallIds : c <= d

InitServe == InitBatch /\ asset = "crypto"

\* A crypto batch whose bulk call is answered with entries that all validate,
\* next to one get_quote request, as the clock advances.
NextServe ==
    \/ \E symbols \in BatchRequests : GetBatchQuotes(symbols)
    \/ /\ BulkResponds
       /\ batch'.response # None
       /\ \A coin \in batch'.response[1] : coin.price >= 0
    \/ BatchCacheQuote
    \/ \E raw \in RawSymbols : GetQuote(Reader, raw)
    \/ CacheCheck(Reader)
    \/ \E p \in Providers : FetchSucceeds(Reader, p)
    \/ \E p \in Providers : FetchFails(Reader, p)
    \/ RaceWake(Reader)
    \/ CacheQuote(Reader)
    \/ \E p \in Providers : CancelledTaskEnds(Reader, p)
    \/ Tick

SpecServe == InitServe /\ [][NextServe]_vars

\* ------------------------------------------------------- one request, live
\* One get_quote when nothing hangs: redis answers, the event loop wakes the
\* coroutine when it is ready, and every fetch task that was created
\* completes, with a result or with an exception.
Fairness ==
    /\ WF_vars(CacheCheck(Reader))
    /\ WF_vars(RaceWake(Reader))
    /\ WF_vars(CacheQuote(Reader))
    /\ \A p \in Providers : WF_vars(FetchSucceeds(Reader, p) \/ FetchFails(Reader, p))

NextLive ==
    \/ \E raw \in RawSymbols : GetQuote(Reader, raw)
    \/ CacheCheck(Reader)
    \/ \E p \in Providers : FetchSucceeds(Reader, p)
    \/ \E p \in Providers : FetchFails(Reader, p)
    \/ RaceWake(Reader)
    \/ CacheQuote(Reader)
    \/ \E p \in Providers : CancelledTaskEnds(Reader, p)
    \/ Tick

SpecLive == Init /\ [][NextLive]_vars /\ Fairness

\* ------------------------------------------------------- the shared store
\* The keys get_quote reads in these behaviours.
ReadKeys == {QuoteKey(asset, Normalize(raw)) : raw \in RawSymbols}

\* Redis is a server reached by URL: before this backend stores anything,
\* another client, or an earlier release with another schema, has left a
\* payload under a quote key.
ForeignWrite(key, payload) ==
    /\ \A k \in Keys : cache[k] = None
    /\ cache' = RedisSetex(cache, key, cache_ttl_seconds, payload, now, ForeignId)
    /\ UNCHANGED <<now, asset, settings, call, batch, hist, service>>

\* The requests against such a store, within the lifetime of the entry.
NextCorrupt ==
    \/ \E key \in ReadKeys, payload \in {EmptyPayload, MalformedPayload} :
         ForeignWrite(key, payload)
    \/ \E c \in CallIds, raw \in RawSymbols : GetQuote(c, raw)
    \/ \E c \in CallIds : CacheCheck(c)
    \/ \E c \in CallIds, p \in Providers : FetchSucceeds(c, p)
    \/ \E c \in CallIds, p \in Providers : FetchFails(c, p)
    \/ \E c \in CallIds : RaceWake(c)
    \/ \E c \in CallIds : CacheQuote(c)
    \/ \E c \in CallIds, p \in Providers : CancelledTaskEnds(c, p)

SpecCorrupt == Init /\ [][NextCorrupt]_vars

\* -------------------------------------------------------------- get_history
\* The series a provider may answer with: none or one price point.
PricePoint == [timestamp |-> 1, price |-> MaxPrice]

SeriesChoices == {<<>>, <<PricePoint>>}

\* [h.model_dump(mode="json") for h in history]: the datetime as its ISO string.
DumpSeries(history) ==
    [i \in DOMAIN history |->
        [timestamp |-> [iso |-> history[i].timestamp], price |-> history[i].price]]

\* orjson.loads(cached) followed by [CryptoPriceHistory(**item) for item in
\* data]: the series, or None when either step raises.
LoadSeries(payload) ==
    IF payload.kind # "json" THEN None
    ELSE LET data == payload.obj[1] IN
         Some([i \in DOMAIN data |->
                 [timestamp |-> data[i].timestamp.iso, price |-> data[i].price]])

\* Mutant: a range code the table lacks is fetched as one day.
RangeParams_DayDefault(svc, time_range) ==
    IF svc = "crypto"
    THEN [days |-> CASE time_range = "1D" -> 1
                     [] time_range = "1W" -> 7
                     [] time_range = "1M" -> 30
                     [] time_range = "3M" -> 90
                     [] time_range = "6M" -> 180
                     [] time_range = "1Y" -> 365
                     [] OTHER -> 1]
    ELSE CASE time_range = "1D" -> [period |-> "1d", interval |-> "5m"]
           [] time_range = "1W" -> [period |-> "5d", interval |-> "30m"]
           [] time_range = "1M" -> [period |-> "1mo", interval |-> "1d"]
           [] time_range = "3M" -> [period |-> "3mo", interval |-> "1d"]
           [] time_range = "6M" -> [period |-> "6mo", interval |-> "1d"]
           [] time_range = "1Y" -> [period |-> "1y", interval |-> "1d"]
           [] time_range = "5Y" -> [period |-> "5y", interval |-> "1wk"]
           [] OTHER -> [period |-> "1d", interval |-> "5m"]

\* range_days.get(time_range, 30) of the crypto service and
\* range_config.get(time_range, ("1mo", "1d")) of the stock service: what
\* the provider is asked for.
RangeParams(svc, time_range) ==
    IF svc = "crypto"
    THEN [days |-> CASE time_range = "1D" -> 1
                     [] time_range = "1W" -> 7
                     [] time_range = "1M" -> 30
                     [] time_range = "3M" -> 90
                     [] time_range = "6M" -> 180
                     [] time_range = "1Y" -> 365
                     [] OTHER -> 30]
    ELSE CASE time_range = "1D" -> [period |-> "1d", interval |-> "5m"]
           [] time_range = "1W" -> [period |-> "5d", interval |-> "30m"]
           [] time_range = "1M" -> [period |-> "1mo", interval |-> "1d"]
           [] time_range = "3M" -> [period |-> "3mo", interval |-> "1d"]
           [] time_range = "6M" -> [period |-> "6mo", interval |-> "1d"]
           [] time_range = "1Y" -> [period |-> "1y", interval |-> "1d"]
           [] time_range = "5Y" -> [period |-> "5y", interval |-> "1wk"]
           [] OTHER -> [period |-> "1mo", interval |-> "1d"]

\* The range codes a service has an entry for.
KnownRanges(svc) ==
    {"1D", "1W", "1M", "3M", "6M", "1Y"} \cup (IF svc = "stock" THEN {"5Y"} ELSE {})

ReturnSeries(me, series, t) ==
    [me EXCEPT !.pc = "done", !.done_at = t,
               !.result = [kind |-> "list", series |-> series]]

RaiseFromHistory(me, kind, t) ==
    [me EXCEPT !.pc = "done", !.done_at = t,
               !.result = [kind |-> kind, series |-> <<>>]]

\* except Exception as e: logger.error(...); return []
Swallow(me, e, t) == ReturnSeries([me EXCEPT !.caught = Some(e)], <<>>, t)

\* A request enters get_history: the symbol is normalised, the key is built
\* and the coroutine awaits redis.get.
GetHistory(h, raw, time_range) ==
    /\ hist[h].pc = "idle"
    /\ hist' = [hist EXCEPT ![h] =
                   [IdleHist EXCEPT !.pc = "redis_get", !.svc = asset,
                                    !.symbol = Normalize(raw),
                                    !.time_range = time_range]]
    /\ UNCHANGED <<cache, now, asset, settings, call, batch, service>>

\* redis.get returns: a truthy payload is deserialised and returned, outside
\* any try; otherwise the one provider is asked (CoinGecko through the HTTP
\* client, Yahoo through yfinance in a thread).
HistoryCacheCheck(h) ==
    /\ hist[h].pc = "redis_get"
    /\ LET me == hist[h]
           cached == RedisGet(cache, HistoryKey(me.svc, me.symbol, me.time_range), now)
           seen == [me EXCEPT !.cached = cached]
       IN /\ hist' = [hist EXCEPT ![h] =
                     IF Truthy(cached)
                     THEN LET series == LoadSeries(cached[1]) IN
                          IF series = None
                          THEN RaiseFromHistory(seen, "DeserializationError", now)
                          ELSE ReturnSeries(seen, series[1], now)
                     ELSE [seen EXCEPT !.pc = "fetch", !.fetches = @ + 1,
                                       !.params = Some(RangeParams(me.svc, me.time_range)),
                                       !.provider = IF me.svc = "crypto" THEN "CoinGecko"
                                                    ELSE "Yahoo"]]
          /\ service' = IF ~Truthy(cached) /\ me.svc = "crypto"
                        THEN [service EXCEPT ![<<"history", h>>] = GetHttpClient(@)]
                        ELSE service
    /\ UNCHANGED <<cache, now, asset, settings, call, batch>>

\* redis.get raises (connection lost, timeout): the await is outside the try.
HistoryRedisGetFails(h) ==
    /\ hist[h].pc = "redis_get"
    /\ hist' = [hist EXCEPT ![h] = RaiseFromHistory(hist[h], "RedisError", now)]
    /\ UNCHANGED <<cache, now, asset, settings, call, batch, service>>

\* The provider answers with a series. Stock: an empty frame is returned at
\* once (if hist.empty: return []). Otherwise the series is built and the
\* coroutine awaits redis.setex.
HistoryFetchReturns(h, series) ==
    /\ hist[h].pc = "fetch"
    /\ hist' = [hist EXCEPT ![h] =
                   IF hist[h].svc = "stock" /\ series = <<>>
                   THEN ReturnSeries(hist[h], <<>>, now)
                   ELSE [hist[h] EXCEPT !.pc = "setex", !.history = series]]
    /\ UNCHANGED <<cache, now, asset, settings, call, batch, service>>

\* Mutant: a failed fetch stores the empty series under the key.
HistoryFetchFails_CachesEmpty(h) ==
    /\ hist[h].pc = "fetch"
    /\ hist' = [hist EXCEPT ![h] = Swallow(hist[h], "FetchError", now)]
    /\ cache' = RedisSetex(cache, HistoryKey(hist[h].svc, hist[h].symbol, hist[h].time_range),
                           cache_history_ttl_seconds, Dumps(DumpSeries(<<>>)), now, h)
    /\ UNCHANGED <<now, asset, settings, call, batch, service>>

\* The fetch or the parsing of its answer raises.
HistoryFetchFails(h) ==
    /\ hist[h].pc = "fetch"
    /\ hist' = [hist EXCEPT ![h] = Swallow(hist[h], "FetchError", now)]
    /\ UNCHANGED <<cache, now, asset, settings, call, batch, service>>

\* Mutant: the series is stored with the quote TTL.
HistoryCacheWrite_QuoteTtl(h) ==
    /\ hist[h].pc = "setex"
    /\ LET me == hist[h]
           payload == Dumps(DumpSeries(me.history))
       IN /\ cache' = RedisSetex(cache, HistoryKey(me.svc, me.symbol, me.time_range),
                                 cache_ttl_seconds, payload, now, h)
          /\ hist' = [hist EXCEPT ![h] =
                        ReturnSeries([me EXCEPT !.wrote = Append(@, payload)],
                                     me.history, now)]
    /\ UNCHANGED <<now, asset, settings, call, batch, service>>

\* redis.setex(cache_key, settings.cache_history_ttl_seconds, ...) returns and
\* the series is returned.
HistoryCacheWrite(h) ==
    /\ hist[h].pc = "setex"
    /\ LET me == hist[h]
           payload == Dumps(DumpSeries(me.history))
       IN /\ cache' = RedisSetex(cache, HistoryKey(me.svc, me.symbol, me.time_range),
                                 cache_history_ttl_seconds, payload, now, h)
          /\ hist' = [hist EXCEPT ![h] =
                        ReturnSeries([me EXCEPT !.wrote = Append(@, payload)],
                                     me.history, now)]
    /\ UNCHANGED <<now, asset, settings, call, batch, service>>

\* redis.setex raises: the await is inside the try.
HistorySetexFails(h) ==
    /\ hist[h].pc = "setex"
    /\ hist' = [hist EXCEPT ![h] = Swallow(hist[h], "RedisError", now)]
    /\ UNCHANGED <<cache, now, asset, settings, call, batch, service>>

\* The keys get_history reads in these behaviours.
ReadHistoryKeys ==
    {HistoryKey(asset, Normalize(raw), r) : raw \in RawSymbols, r \in TimeRanges}

\* The history requests against a store that another client may have written.
NextHistory ==
    \/ \E h \in HistIds, raw \in RawSymbols, r \in TimeRanges : GetHistory(h, raw, r)
    \/ \E h \in HistIds : HistoryCacheCheck(h)
    \/ \E h \in HistIds : HistoryRedisGetFails(h)
    \/ \E h \in HistIds, series \in SeriesChoices : HistoryFetchReturns(h, series)
    \/ \E h \in HistIds : HistoryFetchFails(h)
    \/ \E h \in HistIds : HistoryCacheWrite(h)
    \/ \E h \in HistIds : HistorySetexFails(h)
    \/ \E key \in ReadHistoryKeys, payload \in {EmptyPayload, MalformedPayload} :
         ForeignWrite(key, payload)
    \/ Tick

SpecHistory == InitBatch /\ [][NextHistory]_vars

\* -------------------------------------------------------- the route handlers
\* The operation a route handler awaits has finished.
OpDone(r) ==
    CASE r[1] = "quote" -> call[r[2]].pc = "done"
      [] r[1] = "batch" -> batch.pc = "done"
      [] r[1] = "history" -> hist[r[2]].pc = "done"

\* How it finished: "returned", or the class of the exception it raised.
OpOutcome(r) ==
    CASE r[1] = "quote" -> IF call[r[2]].result.kind = "quote" THEN "returned"
                           ELSE call[r[2]].result.kind
      [] r[1] = "batch" -> "returned"
      [] r[1] = "history" -> IF hist[r[2]].result.kind = "list" THEN "returned"
                             ELSE hist[r[2]].result.kind

\* The classes an exception is an instance of.
Classes(svc, e) ==
    IF svc = "crypto"
    THEN (IF e \in {"SymbolNotFoundError", "AllSourcesExhaustedError"}
          THEN {e, "CryptoServiceError"} ELSE {e})
    ELSE (IF e = "SymbolNotFoundError" THEN {e, "StockServiceError"} ELSE {e})

\* Mutant: the stock route lists the base class first.
ExceptClauses_BaseFirst(op, svc) ==
    IF op # "quote" THEN <<>>
    ELSE IF svc = "crypto"
    THEN <<[class |-> "SymbolNotFoundError", status |-> 404],
           [class |-> "AllSourcesExhaustedError", status |-> 503]>>
    ELSE <<[class |-> "StockServiceError", status |-> 503],
           [class |-> "SymbolNotFoundError", status |-> 404]>>

\* The except clauses of a route, in their order; the history and batch
\* routes have none.
ExceptClauses(op, svc) ==
    IF op # "quote" THEN <<>>
    ELSE IF svc = "crypto"
    THEN <<[class |-> "SymbolNotFoundError", status |-> 404],
           [class |-> "AllSourcesExhaustedError", status |-> 503]>>
    ELSE <<[class |-> "SymbolNotFoundError", status |-> 404],
           [class |-> "StockServiceError", status |-> 503]>>

\* The status the route answers with: 200 on a return, the status of the
\* first except clause the exception matches, 500 when none matches.
StatusOf(op, svc, outcome) ==
    IF outcome = "returned" THEN 200
    ELSE LET clauses == ExceptClauses(op, svc)
             hits == {i \in DOMAIN clauses : clauses[i].class \in Classes(svc, outcome)}
         IN IF hits = {} THEN 500
            ELSE clauses[CHOOSE i \in hits : \A j \in hits : i <= j].status

\* close() up to its await: with a client it awaits aclose(), without one it
\* returns at once.
Close(s) ==
    IF s.http_client # "none"
    THEN [s EXCEPT !.pc = "aclose", !.closes = @ + 1]
    ELSE [s EXCEPT !.pc = "responded", !.closes = @ + 1]

\* Mutant: close() runs only when the operation returned.
RouteFinally_OnlyOnReturn(r) ==
    /\ service[r].pc = "open"
    /\ OpDone(r)
    /\ LET answered == [service[r] EXCEPT
                           !.status = StatusOf(r[1], asset, OpOutcome(r))]
       IN service' = [service EXCEPT ![r] =
                        IF OpOutcome(r) = "returned" THEN Close(answered)
                        ELSE [answered EXCEPT !.pc = "responded"]]
    /\ UNCHANGED <<cache, now, asset, settings, call, batch, hist>>

\* The awaited operation has returned or raised: the matching except clause
\* picks the status, and the finally clause awaits service.close().
RouteFinally(r) ==
    /\ service[r].pc = "open"
    /\ OpDone(r)
    /\ service' = [service EXCEPT ![r] =
                     Close([@ EXCEPT !.status = StatusOf(r[1], asset, OpOutcome(r))])]
    /\ UNCHANGED <<cache, now, asset, settings, call, batch, hist>>

\* aclose() returns: self._http_client = None, and the response goes out.
CloseReturns(r) ==
    /\ service[r].pc = "aclose"
    /\ service' = [service EXCEPT ![r] =
                     [@ EXCEPT !.http_client = "none", !.aclosed = @ + 1,
                               !.pc = "responded"]]
    /\ UNCHANGED <<cache, now, asset, settings, call, batch, hist>>

\* No request is being served: every operation is unstarted or answered.
Quiet ==
    /\ \A c \in CallIds : call[c].pc = "idle" \/ service[<<"quote", c>>].pc = "responded"
    /\ batch.pc = "idle" \/ service[<<"batch", BatchId>>].pc = "responded"
    /\ \A h \in HistIds : hist[h].pc = "idle" \/ service[<<"history", h>>].pc = "responded"

\* Nothing has been requested yet.
Fresh ==
    /\ \A c \in CallIds : call[c].pc = "idle"
    /\ batch.pc = "idle"
    /\ \A h \in HistIds : hist[h].pc = "idle"

\* The first history request.
FirstHist == CHOOSE h \in HistIds : \A g \in HistIds : h <= g

\* Requests through the routes, one at a time: quote requests one after the
\* other, or one batch request of one symbol, or one history request.
NextRoute ==
    \/ \E c \in CallIds, raw \in RawSymbols : Quiet /\ GetQuote(c, raw)
    \/ \E symbols \in BatchRequests : Fresh /\ Len(symbols) = 1 /\ GetBatchQuotes(symbols)
    \/ \E raw \in RawSymbols, r \in TimeRanges : Fresh /\ GetHistory(FirstHist, raw, r)
    \/ \E c \in CallIds \cup ChildIds : CacheCheck(c)
    \/ \E c \in CallIds \cup ChildIds, p \in Providers : FetchSucceeds(c, p)
    \/ \E c \in CallIds \cup ChildIds, p \in Providers : FetchFails(c, p)
    \/ \E c \in CallIds \cup ChildIds : RaceWake(c)
    \/ \E c \in CallIds \cup ChildIds : CacheQuote(c)
    \/ \E c \in CallIds \cup ChildIds, p \in Providers : CancelledTaskEnds(c, p)
    \/ BulkResponds
    \/ BulkFails
    \/ BatchCacheQuote
    \/ Gather
    \/ HistoryCacheCheck(FirstHist)
    \/ HistoryRedisGetFails(FirstHist)
    \/ \E series \in SeriesChoices : HistoryFetchReturns(FirstHist, series)
    \/ HistoryFetchFails(FirstHist)
    \/ HistoryCacheWrite(FirstHist)
    \/ HistorySetexFails(FirstHist)
    \/ \E r \in ServiceIds : RouteFinally(r)
    \/ \E r \in ServiceIds : CloseReturns(r)

SpecRoute == Init /\ [][NextRoute]_vars

\* ------------------------------------------------------- entries over time
\* No get_quote is running.
NoQuoteRunning == \A c \in CallIds : call[c].pc \in {"idle", "done"}

\* Quote requests one after the other and one history request, while the
\* clock runs past the quote TTL.
NextTtl ==
    \/ \E c \in CallIds, raw \in RawSymbols : NoQuoteRunning /\ GetQuote(c, raw)
    \/ \E c \in CallIds : CacheCheck(c)
    \/ \E c \in CallIds, p \in Providers : FetchSucceeds(c, p)
    \/ \E c \in CallIds, p \in Providers : FetchFails(c, p)
    \/ \E c \in CallIds : RaceWake(c)
    \/ \E c \in CallIds : CacheQuote(c)
    \/ \E c \in CallIds, p \in Providers : CancelledTaskEnds(c, p)
    \/ \E raw \in RawSymbols, r \in TimeRanges :
         NoQuoteRunning /\ GetHistory(FirstHist, raw, r)
    \/ HistoryCacheCheck(FirstHist)
    \/ \E series \in SeriesChoices : HistoryFetchReturns(FirstHist, series)
    \/ HistoryCacheWrite(FirstHist)
    \/ Tick

SpecTtl == InitBatch /\ [][NextTtl]_vars

\* ------------------------------------------------- spellings of one symbol
\* One request per behaviour, for any spelling: a batch of up to MaxBatch
\* symbols on the bulk path, a quote, or a history.
VariantRequests == UNION {[1 .. n -> SymbolVariants] : n \in 1 .. MaxBatch}

NextVariants ==
    \/ \E symbols \in VariantRequests : Fresh /\ GetBatchQuotes(symbols)
    \/ BulkResponds
    \/ BatchCacheQuote
    \/ \E raw \in SymbolVariants : Fresh /\ GetQuote(Reader, raw)
    \/ CacheCheck(Reader)
    \/ \E p \in Providers : FetchSucceeds(Reader, p)
    \/ \E p \in Providers : FetchFails(Reader, p)
    \/ RaceWake(Reader)
    \/ CacheQuote(Reader)
    \/ \E p \in Providers : CancelledTaskEnds(Reader, p)
    \/ \E raw \in SymbolVariants, r \in TimeRanges : Fresh /\ GetHistory(FirstHist, raw, r)
    \/ HistoryCacheCheck(FirstHist)
    \/ \E series \in SeriesChoices : HistoryFetchReturns(FirstHist, series)
    \/ HistoryCacheWrite(FirstHist)

\* The spellings are those of a crypto symbol.
InitVariants == InitBatch /\ asset = "crypto"

SpecVariants == InitVariants /\ [][NextVariants]_vars


\* ------------------------------------------------------------------ claims
Launched(me) == {p \in Providers : me.att[p].st # "none"}

WithStatus(me, st) == {p \in Providers : me.att[p].st = st}

\* The call ended on the cache-miss path (it raced the providers).
EndedAfterRace(me) == me.pc = "done" /\ ~Truthy(me.cached)

\* The call ended on the cache-hit path.
EndedOnHit(me) == me.pc = "done" /\ Truthy(me.cached)

\* C1: on a cache miss get_quote returns the quote of the attempt that
\* completed successfully first, and its source names that provider.
C1_FirstSuccessWins ==
    \A c \in CallIds :
        LET me == call[c] IN
        (EndedAfterRace(me) /\ me.result.kind = "quote") =>
            /\ me.first_ok # None
            /\ me.result.quote = me.att[me.first_ok[1]].q
            /\ me.result.quote[1].source = SourceOf(me.first_ok[1])

C3_NotFoundTakesPriority ==
    \A c \in CallIds :
        LET me == call[c] IN
        (EndedAfterRace(me) /\ WithStatus(me, "ok") = {}
                            /\ WithStatus(me, "notfound") # {}) =>
            me.result.kind = "SymbolNotFoundError"

\* SymbolNotFoundError although another attempt failed with a transient error.
C3_Witness ==
    \E c \in CallIds :
        /\ call[c].pc = "done" /\ call[c].result.kind = "SymbolNotFoundError"
        /\ WithStatus(call[c], "error") # {}
        /\ WithStatus(call[c], "notfound") # {}

\* C4: when every attempt failed with a transient error, get_quote raises the
\* all-sources-exhausted error of its service, and the aggregated errors hold
\* the failure message of every launched attempt exactly once and nothing else.
C4_ExhaustedCarriesEveryFailure ==
    \A c \in CallIds :
        LET me == call[c] IN
        (EndedAfterRace(me) /\ WithStatus(me, "error") = Launched(me)) =>
            /\ me.result.kind = ExhaustedError(me.svc)
            /\ Len(me.result.errors) = Cardinality(Launched(me))
            /\ \A p \in Launched(me) :
                   Cardinality({i \in DOMAIN me.result.errors :
                                   me.result.errors[i].e = FailureMessage(p)}) = 1

\* Three attempts failed transiently, not all in the same wake-up.
C4_Witness ==
    \E c \in CallIds :
        /\ call[c].pc = "done" /\ call[c].result.kind = ExhaustedError(call[c].svc)
        /\ Cardinality(WithStatus(call[c], "error")) = 3
        /\ Len(call[c].result.errors) = 3

\* C5: when a call returned a quote from the providers and a second call for
\* the same symbol reads the cache within the quote TTL of that return (no
\* other call having replaced the entry), the second call ends at once with
\* the same quote and creates no fetch task.
C5_SecondCallServedFromCache ==
    [][\A c1, c2 \in CallIds :
         LET first == call[c1]
             key == QuoteKey(first.svc, first.symbol)
         IN (/\ c1 # c2
             /\ EndedAfterRace(first) /\ first.result.kind = "quote"
             /\ call[c2].pc = "redis_get" /\ call'[c2].pc # "redis_get"
             /\ call[c2].svc = first.svc /\ call[c2].symbol = first.symbol
             /\ now < first.done_at + cache_ttl_seconds
             /\ (cache[key] # None => cache[key][1].by = c1))
            => (/\ call'[c2].pc = "done"
                /\ call'[c2].result = first.result
                /\ call'[c2].tasks = <<>>
                /\ Launched(call'[c2]) = {})]_vars

\* The second call was served from the cache some time after the first
\* returned, with the quote the first returned (optional field present).
C5_Witness ==
    \E c1, c2 \in CallIds :
        /\ EndedAfterRace(call[c1]) /\ EndedOnHit(call[c2])
        /\ call[c2].done_at > call[c1].done_at
        /\ call[c2].result = call[c1].result
        /\ call[c2].result.kind = "quote"
        /\ call[c2].result.quote[1].opt # None

\* C6: a call writes the cache at most once, and what it writes is the quote
\* of the attempt whose result it took; every cache entry is such a write, and
\* every cache-hit read returns one.
C6_OnlyTheWinnerIsCached ==
    /\ \A c \in CallIds :
          LET me == call[c] IN
          /\ Len(me.wrote) <= 1
          /\ me.wrote # <<>> =>
                /\ me.winner # None
                /\ me.wrote[1] = Dumps(ModelDump(me.svc, me.att[me.winner[1]].q[1]))
                /\ \A p \in Launched(me) \ {me.winner[1]} :
                       me.wrote[1].obj[1]["source"] # SourceOf(p)
    /\ \A k \in Keys :
          cache[k] # None => cache[k][1].payload \in Range(call[cache[k][1].by].wrote)
    /\ \A c \in CallIds :
          EndedOnHit(call[c]) =>
              /\ \E w \in CallIds : call[c].cached[1] \in Range(call[w].wrote)
              /\ call[c].result.quote = LoadQuote(call[c].svc, call[c].cached[1])

\* A race ended with a winner while another attempt had also produced a
\* quote or was cancelled and ended later; a later call was served the
\* winner's quote from the cache.
C6_Witness ==
    \E c1, c2 \in CallIds :
        /\ EndedAfterRace(call[c1]) /\ call[c1].wrote # <<>>
        /\ WithStatus(call[c1], "discarded") # {}
        /\ Cardinality(WithStatus(call[c1], "ok")) >= 2
        /\ EndedOnHit(call[c2])
        /\ call[c2].result.quote[1].source = SourceOf(call[c1].winner[1])

\* C7: when get_quote returns a quote it got from a provider, it has stored
\* exactly one payload, the dump of the returned quote, which loads back to
\* that quote.
C7_CacheWriteBeforeReturn ==
    \A c \in CallIds :
        LET me == call[c] IN
        (EndedAfterRace(me) /\ me.result.kind = "quote") =>
            /\ me.wrote = <<Dumps(ModelDump(me.svc, me.result.quote[1]))>>
            /\ LoadQuote(me.svc, me.wrote[1]) = me.result.quote

\* A call has just returned a provider quote and the cache holds its dump.
C7_Witness ==
    \E c \in CallIds :
        LET me == call[c]
            key == QuoteKey(me.svc, me.symbol)
        IN /\ EndedAfterRace(me) /\ me.result.kind = "quote"
           /\ cache[key] # None
           /\ cache[key][1].by = c
           /\ cache[key][1].payload = Dumps(ModelDump(me.svc, me.result.quote[1]))
           /\ cache[key][1].expires = me.done_at + cache_ttl_seconds

C9_CorruptPayloadIsAMiss ==
    \A c \in CallIds :
        LET me == call[c] IN
        (me.pc \notin {"idle", "redis_get"} /\ me.cached # None) =>
            (LoadQuote(me.svc, me.cached[1]) = None =>
                /\ Launched(me) # {}
                /\ me.result.kind # "DeserializationError")

\* The ids of the coins of a bulk response.
ResponseIds(data) == {coin.id : coin \in data}

\* C10: when the bulk path of crypto get_batch_quotes returns, the result
\* holds exactly one quote per id of the response, each for a requested symbol
\* whose id the response holds; the bulk path is left only when the call or
\* the validation of an entry raised, never for a missing symbol; no
\* get_quote was started, and only the keys of the returned quotes were
\* stored, so the key of a dropped symbol is still empty.
C10_AbsentSymbolDropped ==
    /\ batch.bulk_error # None =>
          batch.bulk_error[1] \in {"HTTPError", "ValidationError"}
    /\ (asset = "crypto" /\ batch.pc = "done" /\ batch.response # None) =>
          LET ids == ResponseIds(batch.response[1])
              present == {Normalize(raw) :
                             raw \in {r \in Range(batch.symbols) : CoinGeckoId(r) \in ids}}
              returned == {batch.result[i].symbol : i \in DOMAIN batch.result}
          IN /\ batch.bulk_error = None
             /\ returned \subseteq present
             /\ Len(batch.result) = Cardinality(ids)
             /\ \A ch \in ChildIds : call[ch].pc = "idle"
             /\ Range(batch.wrote) = {QuoteKey("crypto", y) : y \in returned}
             /\ \A raw \in Range(batch.symbols) :
                    Normalize(raw) \notin present =>
                        cache[QuoteKey("crypto", Normalize(raw))] = None

\* BTC and ETH were requested, the response held bitcoin only: one quote, for
\* BTC, was returned and stored, and nothing is stored for ETH.
C10_Witness ==
    /\ batch.pc = "done" /\ batch.symbols = <<"BTC", " eth">>
    /\ batch.response # None
    /\ ResponseIds(batch.response[1]) = {"bitcoin"}
    /\ Len(batch.result) = 1
    /\ batch.result[1].symbol = "BTC"
    /\ cache[QuoteKey("crypto", "BTC")] # None
    /\ cache[QuoteKey("crypto", "ETH")] = None

\* The batch resolves symbol by symbol (stock, or crypto after the bulk call
\* raised).
PerSymbolPath == batch.pc \in {"gather", "done"} /\ (asset = "stock" \/ batch.bulk_error # None)

\* The get_quote call of the i-th requested symbol.
Child(i) == call[NumCalls + i]

\* The requested positions whose get_quote returned a quote.
Resolved == {i \in 1 .. Len(batch.symbols) : Child(i).result.kind = "quote"}

C12_FallbackOnePerSymbol ==
    /\ [](asset = "crypto" /\ batch.bulk_error # None =>
            /\ batch.bulk_calls = 1
            /\ batch.pc \in {"gather", "done"}
            /\ \A i \in 1 .. MaxBatch :
                   IF i <= Len(batch.symbols)
                   THEN /\ Child(i).pc # "idle"
                        /\ Child(i).svc = "crypto"
                        /\ Child(i).symbol = Normalize(batch.symbols[i])
                        /\ Launched(Child(i)) \in {{}, Range(EnabledProviders("crypto", settings))}
                   ELSE Child(i).pc = "idle"
            /\ batch.pc = "done" => Len(batch.result) = Cardinality(Resolved))
    /\ [][\A c \in ChildIds :
            /\ call[c].pc = "done" =>
                  call'[c].pc = "done" /\ call'[c].result = call[c].result
            /\ Launched(call[c]) \subseteq Launched(call'[c])
            /\ \A p \in Providers :
                   call[c].att[p].st \notin {"none", "pending"} =>
                       call'[c].att[p].st # "pending"]_vars

\* Two symbols were requested, the bulk call raised, and both get_quote calls
\* are racing their providers at the same time.
C12_Witness ==
    /\ asset = "crypto" /\ batch.pc = "gather" /\ batch.bulk_error # None
    /\ Len(batch.symbols) = 2
    /\ \A i \in 1 .. 2 : Child(i).pc = "wait" /\ Launched(Child(i)) # {}

\* C15: a get_quote of the per-symbol path has read the cache before it has
\* any provider attempt, and it has attempts only if the read found nothing;
\* one that reads a fresh entry ends in that step with the quote of the entry
\* and without any provider attempt.
C15_PerSymbolCacheFirst ==
    /\ [](\A c \in ChildIds :
            LET me == call[c] IN
            /\ Launched(me) # {} => me.pc # "redis_get" /\ ~Truthy(me.cached)
            /\ EndedOnHit(me) =>
                  /\ Launched(me) = {}
                  /\ me.result.quote = LoadQuote(me.svc, me.cached[1]))
    /\ [][\A c \in ChildIds :
            LET me == call[c]
                cached == RedisGet(cache, QuoteKey(me.svc, me.symbol), now)
            IN (me.pc = "redis_get" /\ call'[c].pc # "redis_get" /\ Truthy(cached)) =>
                  /\ call'[c].pc = "done"
                  /\ call'[c].result.kind = "quote"
                  /\ call'[c].result.quote = LoadQuote(me.svc, cached[1])
                  /\ Launched(call'[c]) = {}]_vars

\* On the stock path one symbol was requested twice: one get_quote raced the
\* provider and the other was answered from the entry it stored.
C15_Witness ==
    /\ asset = "stock" /\ batch.pc = "done"
    /\ \E i, j \in 1 .. Len(batch.symbols) :
          /\ EndedAfterRace(Child(i)) /\ Child(i).wrote # <<>>
          /\ EndedOnHit(Child(j)) /\ Launched(Child(j)) = {}
          /\ Child(j).result = Child(i).result

\* The providers of a service that need no credential, and the API key each
\* of the others needs.
Keyless(svc) == IF svc = "crypto" THEN {"CoinGecko", "Binance"} ELSE {"Yahoo"}

Keyed(svc) == IF svc = "crypto" THEN {"CoinMarketCap"} ELSE {"Alpha Vantage", "Polygon"}

HasKey(p) ==
    CASE p = "CoinMarketCap" -> settings.coinmarketcap_api_key
      [] p = "Alpha Vantage" -> settings.alpha_vantage_api_key
      [] p = "Polygon" -> settings.polygon_api_key
      [] OTHER -> TRUE

\* C20: a get_quote that missed the cache has one attempt for every keyless
\* provider of its service and for every provider whose key is configured,
\* and for no other; before the miss it has none. An attempt that has ended
\* is never pending again, no attempt is added later, and a call that ended
\* stays ended with the same outcome.
C20_OneAttemptPerEnabledProvider ==
    /\ [](\A c \in CallIds :
            LET me == call[c] IN
            IF me.pc \in {"wait", "cache_quote"} \/ EndedAfterRace(me)
            THEN /\ Launched(me) = Keyless(me.svc) \cup {p \in Keyed(me.svc) : HasKey(p)}
                 /\ Launched(me) # {}
            ELSE Launched(me) = {})
    /\ [][\A c \in CallIds :
            /\ call[c].pc = "done" =>
                  call'[c].pc = "done" /\ call'[c].result = call[c].result
            /\ Launched(call[c]) # {} => Launched(call'[c]) = Launched(call[c])
            /\ \A p \in Providers :
                   call[c].att[p].st \notin {"none", "pending"} =>
                       call'[c].att[p].st # "pending"]_vars

\* A stock call with the Alpha Vantage key and without the Polygon key raced
\* Yahoo and Alpha Vantage, both failed, and the call ended with the error.
C20_Witness ==
    \E c \in CallIds :
        /\ call[c].svc = "stock" /\ call[c].pc = "done"
        /\ settings.alpha_vantage_api_key /\ ~settings.polygon_api_key
        /\ call[c].result.kind = "StockServiceError"
        /\ Launched(call[c]) = {"Yahoo", "Alpha Vantage"}
        /\ WithStatus(call[c], "error") = {"Yahoo", "Alpha Vantage"}

\* The bulk path of a crypto batch is running or has returned.
OnBulkPath ==
    /\ asset = "crypto"
    /\ batch.pc \in {"http_get", "cache_quote"} \/ (batch.pc = "done" /\ batch.response # None)

\* Every requested symbol has a fresh quote entry.
AllFresh(symbols) ==
    \A i \in DOMAIN symbols :
        Truthy(RedisGet(cache, QuoteKey("crypto", Normalize(symbols[i])), now))

\* C13: a crypto get_batch_quotes for a non-empty request goes straight to the
\* bulk call, whatever the cache holds; on the bulk path one bulk call has
\* been made, it carries the id of every requested symbol, and no get_quote
\* (the only cache reader of a batch) has been started.
C13_OneBulkCallNoCacheRead ==
    /\ [](OnBulkPath =>
            /\ batch.bulk_calls = 1
            /\ Len(batch.coin_ids) = Len(batch.symbols)
            /\ \A i \in DOMAIN batch.symbols : batch.coin_ids[i] = CoinGeckoId(batch.symbols[i])
            /\ \A c \in ChildIds : call[c].pc = "idle")
    /\ [][(asset = "crypto" /\ batch.pc = "idle" /\ batch'.pc # "idle"
                            /\ batch'.symbols # <<>>) =>
            /\ batch'.pc = "http_get"
            /\ batch'.bulk_calls = 1
            /\ \A c \in ChildIds : call'[c].pc = "idle"]_vars

\* The bulk call is in flight although the requested symbol has a fresh
\* entry, stored by a get_quote that returned earlier.
C13_Witness ==
    /\ asset = "crypto" /\ batch.pc = "http_get" /\ batch.bulk_calls = 1
    /\ batch.symbols = <<"BTC">>
    /\ AllFresh(batch.symbols)
    /\ call[Reader].pc = "done" /\ call[Reader].wrote # <<>>

\* C14: when the bulk path has returned, every returned quote has an entry
\* under its single-quote key; as long as no get_quote has replaced it, the
\* entry is the dump of that quote and expires one quote TTL after a moment
\* between the building of the quote and now. A get_quote that reads such an
\* entry before it expires ends in that step with the returned quote and
\* without any provider attempt.
C14_BulkQuotesAreCached ==
    /\ [](asset = "crypto" /\ batch.pc = "done" /\ batch.response # None =>
            \A j \in DOMAIN batch.result :
                LET q == batch.result[j]
                    key == QuoteKey("crypto", q.symbol)
                IN /\ key \in Range(batch.wrote)
                   /\ cache[key] # None
                   /\ cache[key][1].by = BatchId =>
                         /\ cache[key][1].payload = Dumps(ModelDump("crypto", q))
                         /\ q.updated_at + cache_ttl_seconds <= cache[key][1].expires
                         /\ cache[key][1].expires <= now + cache_ttl_seconds)
    /\ [][\A c \in CallIds, j \in DOMAIN batch.result :
            LET q == batch.result[j]
                key == QuoteKey("crypto", q.symbol)
            IN (/\ asset = "crypto" /\ batch.pc = "done" /\ batch.response # None
                /\ call[c].pc = "redis_get" /\ call'[c].pc # "redis_get"
                /\ call[c].symbol = q.symbol
                /\ cache[key][1].by = BatchId
                /\ now < cache[key][1].expires)
               => (/\ call'[c].pc = "done"
                   /\ call'[c].result.quote = Some(q)
                   /\ Launched(call'[c]) = {})]_vars

\* After the bulk path returned a BTC quote, and some time later, a get_quote
\* for BTC was answered with that quote from the entry the batch stored.
C14_Witness ==
    /\ asset = "crypto" /\ batch.pc = "done" /\ batch.response # None
    /\ Len(batch.result) >= 1
    /\ batch.result[1].symbol = "BTC"
    /\ EndedOnHit(call[Reader])
    /\ call[Reader].result.quote = Some(batch.result[1])
    /\ call[Reader].done_at > batch.result[1].updated_at
    /\ Launched(call[Reader]) = {}

\* The key a history request reads and writes.
KeyOf(me) == HistoryKey(me.svc, me.symbol, me.time_range)

\* The one provider of history per asset class.
HistoryProvider(svc) == IF svc = "crypto" THEN "CoinGecko" ELSE "Yahoo"

\* C16: get_history never propagates an error to its caller: a failing cache
\* read, payload deserialization, provider fetch, parse or cache write all
\* end in an empty list. Violated: the cache read and the deserialization of
\* a hit run before the try block, so their exceptions reach the caller.
C16_HistoryNeverRaises ==
    \A h \in HistIds : hist[h].pc = "done" => hist[h].result.kind = "list"

\* C17: get_history is the two-state machine. A cache hit returns the cached
\* series and asks no provider; a miss asks exactly one provider once; and a
\* fetched series with data is returned only after it was stored under the
\* history key with the history TTL.
C17_HistoryTwoStateMachine ==
    \A h \in HistIds :
        LET me == hist[h] IN
        /\ me.fetches <= 1
        /\ Truthy(me.cached) => me.fetches = 0 /\ me.provider = ""
        /\ (me.pc = "done" /\ Truthy(me.cached) /\ me.result.kind = "list")
              => Some(me.result.series) = LoadSeries(me.cached[1])
        /\ me.pc \in {"fetch", "setex"}
              => /\ ~Truthy(me.cached)
                 /\ me.fetches = 1
                 /\ me.provider = HistoryProvider(me.svc)
        /\ (me.pc = "done" /\ ~Truthy(me.cached) /\ me.result.kind = "list")
              => /\ me.fetches = 1
                 /\ me.provider = HistoryProvider(me.svc)
        /\ (me.pc = "done" /\ me.fetches = 1 /\ me.result.series # <<>>)
              => /\ me.wrote = <<Dumps(DumpSeries(me.result.series))>>
                 /\ cache[KeyOf(me)] # None
                 /\ cache[KeyOf(me)][1].by = h =>
                       /\ cache[KeyOf(me)][1].payload = me.wrote[1]
                       /\ cache[KeyOf(me)][1].expires
                             = me.done_at + cache_history_ttl_seconds

\* One request missed, fetched a series with data and stored it; a later
\* request for the same symbol and range was answered with that series from
\* the cache, without a fetch.
C17_Witness ==
    \E h, g \in HistIds :
        /\ hist[h].pc = "done" /\ hist[h].fetches = 1
        /\ hist[h].result.series # <<>>
        /\ cache[KeyOf(hist[h])] # None /\ cache[KeyOf(hist[h])][1].by = h
        /\ hist[g].pc = "done" /\ Truthy(hist[g].cached)
        /\ KeyOf(hist[g]) = KeyOf(hist[h])
        /\ hist[g].done_at > hist[h].done_at
        /\ hist[g].fetches = 0
        /\ hist[g].result = [kind |-> "list", series |-> hist[h].result.series]

\* C18: once a quote route has picked its answer, it answers 404 exactly when
\* get_quote raised SymbolNotFoundError and 503 exactly when it raised the
\* all-sources-failed error, on the crypto and on the stock route.
C18_ErrorsMapToStatus ==
    \A c \in CallIds :
        LET s == service[<<"quote", c>>]
            e == call[c].result.kind
        IN s.pc # "open" =>
              /\ e = "SymbolNotFoundError" <=> s.status = 404
              /\ e = ExhaustedError(asset) <=> s.status = 503
              /\ e = "quote" <=> s.status = 200

\* On the stock route one request ended in SymbolNotFoundError and was
\* answered 404, another ended in StockServiceError and was answered 503.
C18_Witness ==
    \E c, d \in CallIds :
        /\ asset = "stock"
        /\ call[c].result.kind = "SymbolNotFoundError"
        /\ service[<<"quote", c>>].pc = "responded"
        /\ service[<<"quote", c>>].status = 404
        /\ call[d].result.kind = "StockServiceError"
        /\ service[<<"quote", d>>].pc = "responded"
        /\ service[<<"quote", d>>].status = 503

\* C19: a route handler leaves its try block only through close(), whether
\* the operation returned or raised, and once it has answered the service
\* holds no HTTP client: the one client it created was closed and nothing,
\* a cancelled attempt included, creates another.
C19_CloseAlwaysRuns ==
    \A r \in ServiceIds :
        LET s == service[r] IN
        /\ s.opened <= 1
        /\ s.pc = "open" => s.closes = 0 /\ s.status = NoStatus
        /\ s.pc # "open" => OpDone(r) /\ s.closes = 1 /\ s.status # NoStatus
        /\ s.pc = "aclose" => s.http_client = "open"
        /\ s.pc = "responded" => s.http_client = "none" /\ s.aclosed = s.opened

\* One quote request raised and another returned the winner of a race whose
\* cancelled attempt has ended; each handler closed the client it had
\* created and answered.
C19_Witness ==
    \E c, d \in CallIds :
        /\ call[c].pc = "done" /\ call[c].result.kind = "quote"
        /\ WithStatus(call[c], "discarded") # {}
        /\ call[d].pc = "done" /\ call[d].result.kind # "quote"
        /\ \A r \in {<<"quote", c>>, <<"quote", d>>} :
              /\ service[r].pc = "responded"
              /\ service[r].opened = 1 /\ service[r].aclosed = 1
              /\ service[r].closes = 1
              /\ service[r].http_client = "none"

\* C21: when get_quote takes the result of a successful attempt, every
\* attempt of that race that is still pending in that step is cancelled in
\* the same step, before the cache write and before the return: from then on
\* the call has no pending attempt.
C21_PendingAreCancelled ==
    /\ [](\A c \in CallIds :
            LET me == call[c] IN
            /\ me.pc = "cache_quote" =>
                  /\ WithStatus(me, "pending") = {}
                  /\ me.wrote = <<>>
            /\ (me.pc = "done" /\ me.result.kind = "quote" /\ ~Truthy(me.cached))
                  => WithStatus(me, "pending") = {})
    /\ [][\A c \in CallIds, p \in Providers :
            (/\ call[c].pc = "wait" /\ call'[c].pc = "cache_quote"
             /\ call[c].att[p].st = "pending")
            => call'[c].att[p].st = "cancelled"]_vars

\* A call took a quote while two other attempts were pending: both are
\* cancelled and the cache write has not happened yet.
C21_Witness ==
    \E c \in CallIds :
        /\ call[c].pc = "cache_quote"
        /\ call[c].wrote = <<>>
        /\ Cardinality(WithStatus(call[c], "cancelled")) = 2

\* C22: get_quote raises SymbolNotFoundError or the all-sources-failed error
\* only when every attempt it launched has failed; as long as one attempt is
\* pending and none has succeeded the call stays in its wait, however many
\* of the others have failed.
C22_NoFailureWhilePending ==
    /\ [](\A c \in CallIds :
            LET me == call[c] IN
            (/\ me.pc = "done" /\ ~Truthy(me.cached)
             /\ me.result.kind \in {"SymbolNotFoundError", ExhaustedError(me.svc)})
            => /\ Launched(me) # {}
               /\ Launched(me) = WithStatus(me, "notfound") \cup WithStatus(me, "error"))
    /\ [][\A c \in CallIds :
            (/\ call[c].pc = "wait"
             /\ WithStatus(call[c], "pending") # {}
             /\ WithStatus(call[c], "ok") = {})
            => /\ call'[c].pc = "wait"
               /\ call'[c].result = call[c].result]_vars

\* Every attempt but one has failed and been examined; the last one is
\* pending and the call is still waiting.
C22_Witness ==
    \E c \in CallIds :
        /\ call[c].pc = "wait"
        /\ Cardinality(Launched(call[c])) >= 2
        /\ Cardinality(WithStatus(call[c], "pending")) = 1
        /\ Len(call[c].errors) = Cardinality(Launched(call[c])) - 1

\* C23: when every attempt that was launched completes, a get_quote that was
\* entered ends, with a quote or an error. A wake-up of the race loop that
\* does not end the call takes at least one task off the task list and
\* records one outcome for each task it takes off, so that a waiting call
\* has examined exactly the launched attempts that are no longer listed.
C23_RaceTerminates ==
    /\ \A c \in CallIds : (call[c].pc # "idle") ~> (call[c].pc = "done")
    /\ [](\A c \in CallIds :
            call[c].pc = "wait" =>
               /\ Range(call[c].tasks) \subseteq Launched(call[c])
               /\ Len(call[c].errors) + Len(call[c].tasks)
                     = Cardinality(Launched(call[c])))
    /\ [][\A c \in CallIds :
            (/\ call[c].pc = "wait" /\ call'[c].pc = "wait"
             /\ call'[c].errors # call[c].errors \/ call'[c].tasks # call[c].tasks)
            => /\ Len(call'[c].tasks) < Len(call[c].tasks)
               /\ Range(call'[c].tasks) \subseteq Range(call[c].tasks)
               /\ Len(call'[c].errors) - Len(call[c].errors)
                     = Len(call[c].tasks) - Len(call'[c].tasks)]_vars

\* A call went through three wake-ups, one failed attempt each, and ended.
C23_Witness ==
    \E c \in CallIds :
        /\ call[c].pc = "done"
        /\ Cardinality(Launched(call[c])) = 3
        /\ call[c].result.kind = ExhaustedError(call[c].svc)
        /\ Len(call[c].result.errors) = 3

\* C24: every entry stored under a quote key expires one quote TTL after its
\* write and every entry under a history key one history TTL after its
\* write. A get_quote that reads its key when the entry's TTL has elapsed
\* finds nothing and races the providers, and the quote it returns has
\* replaced the entry.
C24_EntriesExpire ==
    /\ [][\A k \in Keys :
            cache'[k] # cache[k] =>
               /\ cache'[k] # None
               /\ cache'[k][1].expires =
                     now + (IF k \in HistoryKeys THEN cache_history_ttl_seconds
                            ELSE cache_ttl_seconds)]_vars
    /\ [][\A c \in CallIds :
            LET key == QuoteKey(call[c].svc, call[c].symbol) IN
            (/\ call[c].pc = "redis_get" /\ call'[c].pc # "redis_get"
             /\ cache[key] # None
             /\ now >= cache[key][1].expires)
            => /\ call'[c].cached = None
               /\ call'[c].pc = "wait"
               /\ Launched(call'[c]) = Range(EnabledProviders(call[c].svc, settings))]_vars
    /\ [][\A c \in CallIds :
            LET key == QuoteKey(call[c].svc, call[c].symbol) IN
            (call[c].pc = "cache_quote" /\ call'[c].pc = "done")
            => /\ cache'[key] # None
               /\ cache'[key][1].payload = Dumps(ModelDump(call[c].svc, call'[c].result.quote[1]))
               /\ cache'[key][1].expires = now + cache_ttl_seconds]_vars

\* A quote was stored at time 0; a request read the key one quote TTL later,
\* found nothing, raced and stored its own quote, which expires one quote
\* TTL after that; the history entry written meanwhile outlives both.
C24_Witness ==
    \E c, d \in CallIds :
        LET key == QuoteKey(asset, call[c].symbol)
            hkey == HistoryKey(asset, hist[FirstHist].symbol, hist[FirstHist].time_range)
        IN /\ call[c].pc = "done" /\ call[c].wrote # <<>> /\ call[c].done_at = 0
           /\ call[d].pc = "done" /\ call[d].wrote # <<>>
           /\ call[d].done_at = cache_ttl_seconds
           /\ call[d].symbol = call[c].symbol
           /\ call[d].cached = None
           /\ cache[key] # None /\ cache[key][1].by = d
           /\ cache[key][1].expires = 2 * cache_ttl_seconds
           /\ hist[FirstHist].pc = "done" /\ hist[FirstHist].wrote # <<>>
           /\ cache[hkey] # None
           /\ cache[hkey][1].expires = hist[FirstHist].done_at + cache_history_ttl_seconds

\* C25: whatever the spelling of a requested symbol, the key an operation
\* reads and writes and the identifier it sends to the provider are those of
\* the upper-cased, trimmed symbol: get_quote and get_history work on the
\* canonical symbol, and the bulk path asks for the CoinGecko id of the
\* canonical symbol and stores under its key. Violated: for a symbol
\* SYMBOL_MAP lacks the bulk path derives the id from the symbol as written.
C25_VariantsShareKeyAndId ==
    /\ \A c \in CallIds :
          call[c].pc # "idle" => Normalize(call[c].symbol) = call[c].symbol
    /\ \A h \in HistIds :
          hist[h].pc # "idle" => Normalize(hist[h].symbol) = hist[h].symbol
    /\ OnBulkPath =>
          /\ \A i \in DOMAIN batch.symbols :
                batch.coin_ids[i] = CoinGeckoId(Normalize(batch.symbols[i]))
          /\ \A i \in DOMAIN batch.wrote :
                \E j \in DOMAIN batch.symbols :
                    batch.wrote[i] = QuoteKey("crypto", Normalize(batch.symbols[j]))

\* C26: a get_history for a range code its service has no entry for goes on
\* as any other: on a miss it asks the provider with the parameters of range
\* 1M, and it ends as a request for a known code may end.
C26_UnknownRangeIsOneMonth ==
    \A h \in HistIds :
        LET me == hist[h] IN
        /\ (me.pc # "idle" /\ me.fetches = 0) => me.params = None
        /\ me.fetches = 1 =>
              me.params = Some(RangeParams(me.svc,
                              IF me.time_range \in KnownRanges(me.svc)
                              THEN me.time_range ELSE "1M"))
        /\ (me.pc = "done" /\ me.time_range \notin KnownRanges(me.svc)) =>
              me.result.kind \in {"list", "RedisError", "DeserializationError"}

\* A request for the unknown code 10Y fetched with the parameters of 1M and
\* returned the series, stored under the key that holds the code as written.
C26_Witness ==
    \E h \in HistIds :
        /\ hist[h].pc = "done" /\ hist[h].time_range = "10Y"
        /\ hist[h].fetches = 1
        /\ hist[h].params = Some(RangeParams(hist[h].svc, "1M"))
        /\ hist[h].result.kind = "list" /\ hist[h].result.series # <<>>
        /\ cache[KeyOf(hist[h])] # None

\* C27: every quote an attempt produced, every quote get_quote holds or
\* returned, every quote get_batch_quotes returned and every quote stored in
\* the cache has a price and a volume that are not negative; a bulk answer
\* with a negative price produces no quote and ends the bulk path as a
\* failure of the bulk call.
C27_NoNegativePriceOrVolume ==
    /\ \A c \in CallIds \cup ChildIds :
          /\ \A p \in Providers :
                call[c].att[p].q # None => ValidQuote(call[c].att[p].q[1])
          /\ call[c].quote # None => ValidQuote(call[c].quote[1])
          /\ call[c].result.quote # None => ValidQuote(call[c].result.quote[1])
    /\ \A j \in DOMAIN batch.quotes : ValidQuote(batch.quotes[j])
    /\ \A j \in DOMAIN batch.result : ValidQuote(batch.result[j])
    /\ \A k \in Keys :
          (cache[k] # None /\ cache[k][1].payload.kind = "json") =>
             /\ cache[k][1].payload.obj[1]["price"] >= 0
             /\ cache[k][1].payload.obj[1]["volume"] >= 0
    /\ (batch.response # None /\ \E coin \in batch.response[1] : coin.price < 0) =>
          /\ batch.pc # "done"
          /\ \A j \in DOMAIN batch.quotes : batch.quotes[j].price >= 0

\* The bulk answer held a negative price: the bulk path ended with
\* ValidationError, and the per-symbol path returned a quote although one
\* attempt of that symbol had failed.
C27_Witness ==
    /\ batch.pc = "done"
    /\ batch.bulk_error = Some("ValidationError")
    /\ Len(batch.result) >= 1
    /\ \E c \in ChildIds :
          /\ call[c].result.kind = "quote"
          /\ WithStatus(call[c], "error") # {}

\* The quotes a call holds: those its attempts produced and the one it
\* returned.
QuotesOf(me) ==
    {me.att[p].q[1] : p \in {x \in Providers : me.att[x].q # None}}
        \cup (IF me.result.quote # None THEN {me.result.quote[1]} ELSE {})

\* C28: the dump of a quote holds the optional field exactly when the quote
\* has a value for it, it holds every required field, and the payload made
\* of it loads back to a quote equal to the original, with the optional
\* field present and with it absent.
C28_DumpRoundTrip ==
    \A c \in CallIds :
        \A q \in QuotesOf(call[c]) :
            LET data == ModelDump(call[c].svc, q) IN
            /\ RequiredFields \subseteq DOMAIN data
            /\ OptField(call[c].svc) \in DOMAIN data <=> q.opt # None
            /\ q.opt # None => data[OptField(call[c].svc)] = q.opt[1]
            /\ LoadQuote(call[c].svc, Dumps(data)) = Some(q)

\* One call stored a quote without the optional field, another one with it;
\* each payload is what the call returned, dumped.
C28_Witness ==
    \E c, d \in CallIds :
        /\ call[c].wrote # <<>> /\ call[d].wrote # <<>>
        /\ call[c].result.quote[1].opt = None
        /\ call[d].result.quote[1].opt # None
        /\ OptField(asset) \notin DOMAIN call[c].wrote[1].obj[1]
        /\ OptField(asset) \in DOMAIN call[d].wrote[1].obj[1]
        /\ LoadQuote(asset, call[c].wrote[1]) = call[c].result.quote
        /\ LoadQuote(asset, call[d].wrote[1]) = call[d].result.quote

\* C29: every entry of the error list the race loop builds carries the name
\* of the provider whose attempt produced the failure: a transient failure's
\* text is that provider's, a not-found entry names a provider that
\* reported not-found.
C29_ErrorsNameTheirProvider ==
    \A c \in CallIds :
        \A i \in 1 .. Len(call[c].errors) :
            LET entry == call[c].errors[i] IN
            IF entry.e = NotFoundText
            THEN \E p \in Providers :
                    /\ p = entry.source
                    /\ call[c].att[p].st = "notfound"
            ELSE \E p \in Providers :
                    /\ p = entry.source
                    /\ call[c].att[p].st = "error"
                    /\ entry.e = FailureMessage(p)

\* C30: when the bulk path returns, every requested canonical symbol whose
\* provider identifier is among those of the bulk response has a quote with
\* that symbol in the result, also when two requested symbols translate to
\* one identifier.
C30_EveryAnsweredSymbolQuoted ==
    (batch.pc = "done" /\ batch.bulk_error = None /\ batch.response # None) =>
        \A i \in DOMAIN batch.symbols :
            CoinGeckoId(batch.symbols[i]) \in ResponseIds(batch.response[1]) =>
                \E j \in DOMAIN batch.result :
                    batch.result[j].symbol = Normalize(batch.symbols[i])

\* The quotes provider calls have produced: the result of a fetch task of a
\* get_quote call, or a quote built from the bulk response.
Produced ==
    UNION {QuotesOf([call[c] EXCEPT !.result.quote = None]) :
              c \in CallIds \cup ChildIds}
        \cup Range(batch.quotes)

\* C31: whatever the interleaving of a get_quote call and a batch on one
\* cache, the entry under a symbol's quote key is the dump of a valid quote
\* of that symbol that a provider call produced.
C31_EntryIsAQuoteOfItsSymbol ==
    \A s \in Symbols :
        LET entry == cache[QuoteKey(asset, s)] IN
        entry # None =>
            \E q \in Produced :
                /\ q.symbol = s
                /\ ValidQuote(q)
                /\ entry[1].payload = Dumps(ModelDump(asset, q))
                /\ LoadQuote(asset, entry[1].payload) = Some(q)

\* The batch and the get_quote call both stored a BTC quote while the other
\* was running, the entry left is the call's, and the batch stored a second
\* symbol next to it.
C31_Witness ==
    /\ batch.pc = "done" /\ Len(batch.wrote) = 2
    /\ QuoteKey("crypto", "BTC") \in Range(batch.wrote)
    /\ EndedAfterRace(call[Reader]) /\ call[Reader].wrote # <<>>
    /\ call[Reader].symbol = "BTC"
    /\ cache[QuoteKey("crypto", "BTC")] # None
    /\ cache[QuoteKey("crypto", "BTC")][1].by = Reader
    /\ \E k \in Range(batch.wrote) :
          k # QuoteKey("crypto", "BTC") /\ cache[k] # None /\ cache[k][1].by = BatchId

\* The call ended with SymbolNotFound or all-sources-exhausted.
EndedInFailure(me) == EndedAfterRace(me) /\ me.result.kind # "quote"

\* C32: a get_quote call that ends in failure has stored nothing, the step
\* in which it fails leaves the cache as it is, and a later get_quote for
\* the same symbol (no other call having stored a quote) finds no entry and
\* creates a fetch task for every enabled provider again.
C32_FailuresAreNotCached ==
    /\ [](\A c \in CallIds :
            EndedInFailure(call[c]) =>
                /\ call[c].wrote = <<>>
                /\ \A k \in Keys : cache[k] # None => cache[k][1].by # c)
    /\ [][\A c \in CallIds :
            (call[c].pc # "done" /\ EndedInFailure(call'[c])) => cache' = cache]_vars
    /\ [][\A c1, c2 \in CallIds :
            (/\ EndedInFailure(call[c1])
             /\ call[c2].pc = "redis_get" /\ call'[c2].pc # "redis_get"
             /\ call[c2].symbol = call[c1].symbol
             /\ \A d \in CallIds : call[d].wrote = <<>>)
            => (/\ call'[c2].pc = "wait"
                /\ call'[c2].cached = None
                /\ Launched(call'[c2]) = Range(EnabledProviders(asset, settings)))]_vars

\* One call ended in SymbolNotFound, nothing is stored, and the other call,
\* for the same symbol, is racing all its providers.
C32_Witness ==
    \E c1, c2 \in CallIds :
        /\ EndedInFailure(call[c1])
        /\ call[c1].result.kind = "SymbolNotFoundError"
        /\ call[c2].symbol = call[c1].symbol
        /\ call[c2].pc = "wait"
        /\ WithStatus(call[c2], "pending") = Range(EnabledProviders(asset, settings))
        /\ \A k \in Keys : cache[k] = None

\* C33: in the crypto batch a get_quote is started only in the step in which
\* the bulk path raised; when the bulk path returns, it returns the list it
\* built without passing through gather and with no get_quote started, and
\* an empty response gives the empty list.
C33_FallbackOnlyAfterBulkRaised ==
    /\ [][\A ch \in ChildIds :
            (asset = "crypto" /\ call[ch].pc = "idle" /\ call'[ch].pc # "idle")
            => (/\ batch.pc \in {"http_get", "cache_quote"}
                /\ batch'.pc = "gather"
                /\ batch.bulk_error = None /\ batch'.bulk_error # None)]_vars
    /\ [][(/\ asset = "crypto" /\ batch.symbols # <<>>
           /\ batch.pc # "done" /\ batch'.pc = "done"
           /\ batch'.bulk_error = None)
          => (/\ batch.pc \in {"http_get", "cache_quote"}
              /\ batch'.result = batch'.quotes
              /\ \A ch \in ChildIds : call'[ch].pc = "idle")]_vars
    /\ [](asset = "crypto" /\ batch.response = Some({}) =>
              /\ batch.pc = "done" /\ batch.result = <<>>
              /\ \A ch \in ChildIds : call[ch].pc = "idle")

\* Two symbols were requested, the bulk call answered with an empty list:
\* the batch returned the empty list after one bulk call, with no get_quote
\* started and nothing stored.
C33_Witness ==
    /\ asset = "crypto" /\ batch.pc = "done"
    /\ Len(batch.symbols) = 2
    /\ batch.response = Some({}) /\ batch.bulk_error = None
    /\ batch.bulk_calls = 1
    /\ batch.result = <<>>
    /\ \A ch \in ChildIds : call[ch].pc = "idle" /\ Launched(call[ch]) = {}
    /\ \A k \in Keys : cache[k] = None

\* The calls whose fetch tasks asked the service for its HTTP client.
ClientUsers(s) ==
    {c \in CallIds \cup ChildIds :
        ServiceOf(c) = s /\ \E p \in Launched(call[c]) : UsesHttpClient(p)}

\* C34: a service instance has created at most one HTTP client more than it
\* has had close() calls, and never holds more than one that is not closed;
\* while attempts of several races of one instance are running, that
\* instance has created exactly one client and it is the one they hold.
C34_OneHttpClient ==
    \A s \in ServiceIds :
        /\ service[s].opened <= service[s].closes + 1
        /\ service[s].opened <= service[s].aclosed + 1
        /\ (ClientUsers(s) # {} \/ (s = <<"batch", BatchId>> /\ batch.bulk_calls > 0)) =>
              /\ service[s].opened >= 1
              /\ service[s].closes = 0 =>
                    service[s].opened = 1 /\ service[s].http_client = "open"

\* After the bulk call, which took the client, raised, two per-symbol races
\* of the batch's service instance have attempts in flight at once, two
\* apiece; the instance has created one client.
C34_Witness ==
    LET s == <<"batch", BatchId>> IN
    /\ asset = "crypto" /\ batch.bulk_calls = 1 /\ batch.pc = "gather"
    /\ Cardinality(ClientUsers(s)) = 2
    /\ \A c \in ClientUsers(s) :
          call[c].pc = "wait" /\ Cardinality(WithStatus(call[c], "pending")) = 2
    /\ service[s].opened = 1 /\ service[s].http_client = "open"

\* The place at which a canonical symbol is first requested.
FirstRequested(symbols, s) ==
    CHOOSE i \in DOMAIN symbols :
        /\ Normalize(symbols[i]) = s
        /\ \A k \in DOMAIN symbols : Normalize(symbols[k]) = s => i <= k

\* C35: the list get_batch_quotes returns holds at most one quote per
\* canonical symbol, every quote is for a requested symbol, and the quotes
\* stand in the order in which their symbols were first requested.
C35_OneQuotePerSymbolInOrder ==
    batch.pc = "done" =>
        /\ \A i \in DOMAIN batch.result :
              \E k \in DOMAIN batch.symbols :
                  Normalize(batch.symbols[k]) = batch.result[i].symbol
        /\ \A i, j \in DOMAIN batch.result :
              i < j =>
                  /\ batch.result[i].symbol # batch.result[j].symbol
                  /\ FirstRequested(batch.symbols, batch.result[i].symbol)
                        < FirstRequested(batch.symbols, batch.result[j].symbol)

\* The provider fetch of the get_history call failed.
FetchFailed(me) == me.pc = "done" /\ me.caught = Some("FetchError")

\* C36: the step in which the provider fetch of get_history fails returns
\* the empty list and leaves the cache as it is; the call has stored nothing;
\* and a later get_history for the same symbol and range that finds the key
\* as that call left it asks the provider again.
C36_FailedFetchNotCached ==
    /\ [](\A h \in HistIds :
            FetchFailed(hist[h]) =>
                /\ hist[h].result = [kind |-> "list", series |-> <<>>]
                /\ hist[h].wrote = <<>>
                /\ \A k \in Keys : cache[k] # None => cache[k][1].by # h)
    /\ [][\A h \in HistIds :
            (hist[h].pc = "fetch" /\ FetchFailed(hist'[h])) => cache' = cache]_vars
    /\ [][\A h, g \in HistIds :
            (/\ FetchFailed(hist[h])
             /\ hist[g].pc = "redis_get" /\ hist'[g].pc # "redis_get"
             /\ hist'[g].result.kind # "RedisError"
             /\ KeyOf(hist[g]) = KeyOf(hist[h])
             /\ (cache[KeyOf(hist[h])] = None \/ cache[KeyOf(hist[h])][1].by = h))
            => (/\ hist'[g].pc = "fetch"
                /\ hist'[g].fetches = 1
                /\ hist'[g].provider = HistoryProvider(hist[g].svc))]_vars

\* The fetch of one request failed, nothing is stored under its key, and
\* the other request, for the same symbol and range, is asking the provider.
C36_Witness ==
    \E h, g \in HistIds :
        /\ FetchFailed(hist[h])
        /\ hist[h].result.series = <<>>
        /\ cache[KeyOf(hist[h])] = None
        /\ KeyOf(hist[g]) = KeyOf(hist[h])
        /\ hist[g].pc = "fetch" /\ hist[g].fetches = 1

\* C37: get_history stores a series only when it has data: a call that
\* fetched an empty series has stored nothing and no entry in the cache is
\* its own.
C37_EmptySeriesNotCached ==
    \A h \in HistIds :
        LET me == hist[h] IN
        (me.pc = "done" /\ me.fetches = 1 /\ me.caught = None
            /\ me.result = [kind |-> "list", series |-> <<>>])
        => /\ me.wrote = <<>>
           /\ \A k \in Keys : cache[k] # None => cache[k][1].by # h

\* C38: once the bulk path of the crypto batch has raised, also after it
\* stored quotes, the list it was building is gone; the batch ends only
\* after a get_quote for every requested symbol has ended, and the list it
\* returns is made of the results of those calls alone, each taken from that
\* call's own cache read or race.
C38_ResultFromOnePath ==
    (asset = "crypto" /\ batch.bulk_error # None) =>
        /\ batch.quotes = <<>>
        /\ batch.pc = "done" =>
              /\ \A i \in 1 .. Len(batch.symbols) : Child(i).pc = "done"
              /\ batch.result = Collect(Len(batch.symbols), 1)
              /\ \A j \in DOMAIN batch.result :
                     \E i \in Resolved :
                         /\ batch.result[j] = Child(i).result.quote[1]
                         /\ \/ EndedOnHit(Child(i))
                            \/ /\ Child(i).winner # None
                               /\ Child(i).att[Child(i).winner[1]].q = Child(i).result.quote

\* The bulk path stored a quote for the first symbol and raised on the
\* second entry, which failed validation; both symbols were then resolved by
\* get_quote calls, the first from the cache and the second by a race.
C38_Witness ==
    /\ asset = "crypto" /\ batch.pc = "done"
    /\ batch.bulk_error = Some("ValidationError")
    /\ Len(batch.symbols) = 2 /\ Len(batch.wrote) = 1
    /\ Len(batch.result) = 2
    /\ EndedOnHit(Child(1)) /\ EndedAfterRace(Child(2))
    /\ Child(2).winner # None

====
